---- MODULE Spec2Model ----
(***************************************************************************)
(* Protein-Insight: the interaction analysis of server/services/pdb.ts.    *)
(*                                                                         *)
(* Strings are sequences of one-character strings, so that template        *)
(* literals are concatenations, split() is a search and sort() compares    *)
(* code units.  Coordinates are integers in units of 1/Resolution          *)
(* Angstrom; distances are carried in thousandths of an Angstrom.          *)
(***************************************************************************)
EXTENDS Integers, Sequences, FiniteSets, TLC

\* ------------------------------------------------------------ bounds

\* Largest number of atoms in one input (all structures together).
MaxAtoms == 3

\* Coordinate units per Angstrom.
Resolution == 2

\* ------------------------------------------------- strings and numbers

\* The value of parseInt on text that does not start with a number.
NaN == 0 - 1000000

Digits == <<"0", "1", "2", "3", "4", "5", "6", "7", "8", "9">>

RECURSIVE NatToString(_)
NatToString(n) ==
    IF n < 10 THEN <<Digits[n + 1]>>
    ELSE NatToString(n \div 10) \o <<Digits[(n % 10) + 1]>>

\* `${n}` for an integer n (String(n)).
NumToString(n) ==
    IF n = NaN THEN <<"N", "a", "N">>
    ELSE IF n < 0 THEN <<"-">> \o NatToString(0 - n)
    ELSE NatToString(n)

IsDigit(c) == \E d \in 1..10 : Digits[d] = c

DigitValue(c) == (CHOOSE d \in 1..10 : Digits[d] = c) - 1

RECURSIVE ParseDigits(_, _, _)
ParseDigits(s, i, acc) ==
    IF i > Len(s) \/ ~IsDigit(s[i]) THEN acc
    ELSE ParseDigits(s, i + 1, acc * 10 + DigitValue(s[i]))

RECURSIVE SkipSpaces(_, _)
SkipSpaces(s, i) ==
    IF i <= Len(s) /\ s[i] = " " THEN SkipSpaces(s, i + 1) ELSE i

\* parseInt(s): leading blanks, an optional sign, then the longest run of
\* digits; NaN when there is no digit.  s = <<"undefined">> stands for the
\* value undefined (an index past the end of an array).
parseInt(s) ==
    LET i == SkipSpaces(s, 1)
        neg == i <= Len(s) /\ s[i] = "-"
        j == IF i <= Len(s) /\ (s[i] = "-" \/ s[i] = "+") THEN i + 1 ELSE i
    IN  IF j > Len(s) \/ ~IsDigit(s[j]) THEN NaN
        ELSE IF neg THEN 0 - ParseDigits(s, j, 0) ELSE ParseDigits(s, j, 0)

IsPrefixAt(s, sep, i) ==
    /\ i + Len(sep) - 1 <= Len(s)
    /\ SubSeq(s, i, i + Len(sep) - 1) = sep

RECURSIVE SplitFrom(_, _, _, _)
SplitFrom(s, sep, i, cur) ==
    IF i > Len(s) THEN <<cur>>
    ELSE IF IsPrefixAt(s, sep, i)
         THEN <<cur>> \o SplitFrom(s, sep, i + Len(sep), <<>>)
         ELSE SplitFrom(s, sep, i + 1, Append(cur, s[i]))

\* s.split(sep), sep not empty.
Split(s, sep) == SplitFrom(s, sep, 1, <<>>)

\* parts[k] of a JavaScript array (k counted from 0).
At(parts, k) == IF k + 1 <= Len(parts) THEN parts[k + 1] ELSE <<"undefined">>

\* UTF-16 code unit of the characters the model uses.
CodeUnit(c) ==
    CASE c = " " -> 32
      [] c = "-" -> 45
      [] c = ":" -> 58
      [] c = "<" -> 60
      [] c = ">" -> 62
      [] c = "A" -> 65
      [] c = "B" -> 66
      [] c = "X" -> 88
      [] OTHER -> 63

RECURSIVE StrLess(_, _)
\* s < t as JavaScript compares strings: by code unit, a prefix first.
StrLess(s, t) ==
    IF t = <<>> THEN FALSE
    ELSE IF s = <<>> THEN TRUE
    ELSE IF CodeUnit(Head(s)) # CodeUnit(Head(t))
         THEN CodeUnit(Head(s)) < CodeUnit(Head(t))
         ELSE StrLess(Tail(s), Tail(t))

\* [s, t].sort()
SortPair(s, t) == IF StrLess(t, s) THEN <<t, s>> ELSE <<s, t>>

Min(a, b) == IF a <= b THEN a ELSE b

Max(a, b) == IF a >= b THEN a ELSE b

\* s.split(ch) for a separator of one character, without recursion: the
\* pieces of s between the occurrences of ch.
Pieces(s, ch) ==
    LET at == {k \in 1..Len(s) : s[k] = ch}
        Nth(n) == CHOOSE p \in at : Cardinality({q \in at : q < p}) = n - 1
        From(n) == IF n = 1 THEN 1 ELSE Nth(n - 1) + 1
        To(n) == IF n = Cardinality(at) + 1 THEN Len(s) ELSE Nth(n) - 1
    IN  [n \in 1..(Cardinality(at) + 1) |-> SubSeq(s, From(n), To(n))]

\* s.substring(from, to), 0 <= from <= to.
Substring(s, from, to) == SubSeq(s, from + 1, Min(to, Len(s)))

\* s.trim(), for the blank as the only white space.
Trim(s) ==
    LET inked == {k \in 1..Len(s) : s[k] # " "}
    IN  IF inked = {} THEN <<>>
        ELSE SubSeq(s, CHOOSE k \in inked : \A j \in inked : k <= j,
                       CHOOSE k \in inked : \A j \in inked : k >= j)

\* s.startsWith(prefix)
StartsWith(s, prefix) == IsPrefixAt(s, prefix, 1)

\* The number of leading digits of s from position i on.
DigitRun(s, i) ==
    LET stops == {k \in i..(Len(s) + 1) : k > Len(s) \/ ~IsDigit(s[k])}
    IN  (CHOOSE k \in stops : \A j \in stops : k <= j) - i

\* parseFloat(s) of a decimal numeral without exponent, as a number of
\* coordinate units (1/Resolution), rounded down in magnitude; NaN when s
\* does not start with a numeral.
parseFloat(s) ==
    LET i == SkipSpaces(s, 1)
        neg == i <= Len(s) /\ s[i] = "-"
        j == IF i <= Len(s) /\ (s[i] = "-" \/ s[i] = "+") THEN i + 1 ELSE i
        whole == DigitRun(s, j)
        dot == j + whole <= Len(s) /\ s[j + whole] = "."
        frac == IF dot THEN DigitRun(s, j + whole + 1) ELSE 0
        milli == ParseDigits(SubSeq(s, j + whole + 1, j + whole + Min(frac, 3))
                                 \o SubSeq(<<"0", "0", "0">>, 1, 3 - Min(frac, 3)),
                             1, 0)
        size == ((ParseDigits(s, j, 0) * 1000 + milli) * Resolution) \div 1000
    IN  IF whole = 0 /\ frac = 0 THEN NaN
        ELSE IF neg THEN 0 - size ELSE size

RECURSIVE SqrtDown(_, _, _)
SqrtDown(n, lo, hi) ==
    IF lo >= hi THEN lo
    ELSE LET mid == (lo + hi + 1) \div 2
         IN  IF mid * mid <= n THEN SqrtDown(n, mid, hi)
             ELSE SqrtDown(n, lo, mid - 1)

\* Math.sqrt of a squared distance given in squared coordinate units,
\* in thousandths of an Angstrom (rounded down).
SqrtMilli(distSq) ==
    SqrtDown((distSq * 1000000) \div (Resolution * Resolution), 0, 20000)

RECURSIVE Flatten(_)
Flatten(seqs) ==
    IF seqs = <<>> THEN <<>> ELSE Head(seqs) \o Flatten(Tail(seqs))

Range(s) == {s[k] : k \in 1..Len(s)}

\* ------------------------------------------------------ program constants

GRID_SIZE == 5

\* ------------------------------------------------------------- the state

VARIABLES
    atomsByProtein,             \* the argument: <<[name, atoms]>> in key order
    pc,                         \* the section of analyzeInteractions to run next
    idx,                        \* index in allAtoms of the next atom_a
    chainMetrics,
    interactingResiduesByChain,
    grid,
    checked,
    interactions,
    interfaceResidues,
    interactionDensity,
    chainInteractionSummary,
    result                      \* the returned AnalysisResult

vars == <<atomsByProtein, pc, idx, chainMetrics, interactingResiduesByChain,
          grid, checked, interactions, interfaceResidues, interactionDensity,
          chainInteractionSummary, result>>

\* Object.values(atomsByProtein).flat()
AllAtoms(abp) == Flatten([k \in 1..Len(abp) |-> abp[k].atoms])

\* Object.keys(atomsByProtein)
Proteins(abp) == [k \in 1..Len(abp) |-> abp[k].name]

\* `${proteinName}:${chainId}`
ChainKey(proteinName, chainId) == proteinName \o <<":">> \o chainId

RECURSIVE DistinctFrom(_, _, _)
DistinctFrom(s, k, acc) ==
    IF k > Len(s) THEN acc
    ELSE DistinctFrom(s, k + 1,
                      IF s[k] \in Range(acc) THEN acc ELSE Append(acc, s[k]))

\* Array.from(new Set(s)): the distinct elements, in order of first occurrence.
Distinct(s) == DistinctFrom(s, 1, <<>>)

\* The ChainMetrics pushed for one protein.
ProteinChainMetrics(entry) ==
    LET atoms == entry.atoms
        chainIds == Distinct([k \in 1..Len(atoms) |-> atoms[k].chainID])
    IN  [c \in 1..Len(chainIds) |->
            LET chainAtoms == SelectSeq(atoms, LAMBDA a : a.chainID = chainIds[c])
            IN  [proteinName |-> entry.name,
                 chainId |-> chainIds[c],
                 residueCount |-> Cardinality({a.resSeq : a \in Range(chainAtoms)}),
                 atomCount |-> Len(chainAtoms),
                 interactingResidues |-> 0,
                 intraProteinInteractions |-> 0,
                 interProteinInteractions |-> 0]]

BuildChainMetrics(abp) ==
    Flatten([k \in 1..Len(abp) |-> ProteinChainMetrics(abp[k])])

\* interactingResiduesByChain after the first loop: an empty set per chain key.
EmptyResidueSets(abp) ==
    [key \in {ChainKey(a.proteinName, a.chainID) : a \in Range(AllAtoms(abp))}
        |-> {}]

\* Cell coordinates of a grid whose cells are half as wide as the cutoff.
FloorDivHalfCell(v, size) == v \div ((size * Resolution) \div 2)

FloorDiv(v, size) == v \div (size * Resolution)

\* `${gridX},${gridY},${gridZ}`
GridKey(gx, gy, gz) ==
    NumToString(gx) \o <<",">> \o NumToString(gy) \o <<",">> \o NumToString(gz)

AtomGridKey(a) ==
    GridKey(FloorDiv(a.x, GRID_SIZE), FloorDiv(a.y, GRID_SIZE),
            FloorDiv(a.z, GRID_SIZE))

BuildGrid(allAtoms) ==
    [key \in {AtomGridKey(a) : a \in Range(allAtoms)}
        |-> SelectSeq(allAtoms, LAMBDA a : AtomGridKey(a) = key)]

\* The 27 offsets in the order of the three nested loops.
Offsets ==
    [m \in 1..27 |-> <<((m - 1) \div 9) - 1, (((m - 1) \div 3) % 3) - 1,
                       ((m - 1) % 3) - 1>>]

\* The atoms the three nested loops hand to the innermost loop, in order.
Neighbors(g, atom_a) ==
    LET gridX == FloorDiv(atom_a.x, GRID_SIZE)
        gridY == FloorDiv(atom_a.y, GRID_SIZE)
        gridZ == FloorDiv(atom_a.z, GRID_SIZE)
    IN  Flatten([m \in 1..27 |->
            LET key == GridKey(gridX + Offsets[m][1], gridY + Offsets[m][2],
                               gridZ + Offsets[m][3])
            IN  IF key \in DOMAIN g THEN g[key] ELSE <<>>])

\* ------------------------------------------------------------- detection

\* `${Math.min(a.serial, b.serial)}-${Math.max(a.serial, b.serial)}`
\* A pair key that keeps the order in which the two atoms are met.
PairKeyInMeetingOrder(atom_a, atom_b) ==
    NumToString(atom_a.serial) \o <<"-">> \o NumToString(atom_b.serial)

PairKey(atom_a, atom_b) ==
    NumToString(Min(atom_a.serial, atom_b.serial)) \o <<"-">>
        \o NumToString(Max(atom_a.serial, atom_b.serial))

\* The "skip same atom" test.
SameAtom(atom_a, atom_b) ==
    atom_a.serial = atom_b.serial /\ atom_a.proteinName = atom_b.proteinName

DistSq(atom_a, atom_b) ==
    LET dx == atom_a.x - atom_b.x
        dy == atom_a.y - atom_b.y
        dz == atom_a.z - atom_b.z
    IN  dx * dx + dy * dy + dz * dz

\* A cutoff of 6.0 Angstrom instead of 5.0.
WithinSixAngstrom(distSq) == distSq <= 36 * Resolution * Resolution

\* distSq <= 25, distSq in squared coordinate units.
WithinCutoff(distSq) == distSq <= 25 * Resolution * Resolution

\* The intra test of the variant that compares the structure labels only.
IsIntraByStructure(atom_a, atom_b) ==
    atom_a.proteinName = atom_b.proteinName

IsIntra(atom_a, atom_b) ==
    atom_a.proteinName = atom_b.proteinName /\ atom_a.chainID = atom_b.chainID

isHydrophobic(res) ==
    res \in {<<"A", "L", "A">>, <<"V", "A", "L">>, <<"L", "E", "U">>,
             <<"I", "L", "E">>, <<"M", "E", "T">>, <<"P", "H", "E">>,
             <<"T", "R", "P">>, <<"P", "R", "O">>}

isCharged(res) ==
    res \in {<<"A", "R", "G">>, <<"L", "Y", "S">>, <<"A", "S", "P">>,
             <<"G", "L", "U">>, <<"H", "I", "S">>}

IsNO(element) == element = <<"N">> \/ element = <<"O">>

\* A classification that tests the charged residues before the elements.
ClassifySaltBridgeFirst(atom_a, atom_b, distance) ==
    IF distance < 3500
    THEN IF isCharged(atom_a.resName) /\ isCharged(atom_b.resName)
         THEN "Salt Bridge"
         ELSE IF IsNO(atom_a.element) /\ IsNO(atom_b.element)
              THEN "Hydrogen Bond"
              ELSE "Van der Waals"
    ELSE IF isHydrophobic(atom_a.resName) /\ isHydrophobic(atom_b.resName)
         THEN "Hydrophobic"
         ELSE "Van der Waals"

\* A classification that gives two aromatic residues beyond 3.5 Angstrom
\* the reserved category.
ClassifyWithPiStacking(atom_a, atom_b, distance) ==
    LET isAromatic(res) ==
            res \in {<<"P", "H", "E">>, <<"T", "R", "P">>, <<"T", "Y", "R">>,
                     <<"H", "I", "S">>}
    IN  IF distance < 3500
        THEN IF IsNO(atom_a.element) /\ IsNO(atom_b.element)
             THEN "Hydrogen Bond"
             ELSE IF isCharged(atom_a.resName) /\ isCharged(atom_b.resName)
                  THEN "Salt Bridge"
                  ELSE "Van der Waals"
        ELSE IF isAromatic(atom_a.resName) /\ isAromatic(atom_b.resName)
             THEN "Pi-Stacking"
             ELSE IF isHydrophobic(atom_a.resName)
                         /\ isHydrophobic(atom_b.resName)
                  THEN "Hydrophobic"
                  ELSE "Van der Waals"

\* A classification without the two default branches: the placeholder stays.
ClassifyWithoutDefault(atom_a, atom_b, distance) ==
    IF distance < 3500
    THEN IF IsNO(atom_a.element) /\ IsNO(atom_b.element) THEN "Hydrogen Bond"
         ELSE IF isCharged(atom_a.resName) /\ isCharged(atom_b.resName)
              THEN "Salt Bridge"
              ELSE "Other"
    ELSE IF isHydrophobic(atom_a.resName) /\ isHydrophobic(atom_b.resName)
         THEN "Hydrophobic"
         ELSE "Other"

\* The interaction type; distance in thousandths of an Angstrom.
Classify(atom_a, atom_b, distance) ==
    IF distance < 3500
    THEN IF IsNO(atom_a.element) /\ IsNO(atom_b.element) THEN "Hydrogen Bond"
         ELSE IF isCharged(atom_a.resName) /\ isCharged(atom_b.resName)
              THEN "Salt Bridge"
              ELSE "Van der Waals"
    ELSE IF isHydrophobic(atom_a.resName) /\ isHydrophobic(atom_b.resName)
         THEN "Hydrophobic"
         ELSE "Van der Waals"

MakeInteraction(atom_a, atom_b, distance) ==
    [id |-> NumToString(atom_a.serial) \o <<"-">> \o NumToString(atom_b.serial),
     proteinA |-> atom_a.proteinName,
     proteinB |-> atom_b.proteinName,
     chainA |-> atom_a.chainID,
     chainB |-> atom_b.chainID,
     residueA |-> atom_a.resName \o <<" ">> \o NumToString(atom_a.resSeq),
     residueB |-> atom_b.resName \o <<" ">> \o NumToString(atom_b.resSeq),
     atomA |-> atom_a.name \o <<" ", "(">> \o atom_a.element \o <<")">>,
     atomB |-> atom_b.name \o <<" ", "(">> \o atom_b.element \o <<")">>,
     distance |-> distance,
     type |-> Classify(atom_a, atom_b, distance),
     isIntraMolecular |-> IsIntra(atom_a, atom_b)]

\* interactingResiduesByChain[key]?.add(resSeq)
AddResidue(sets, key, resSeq) ==
    IF key \in DOMAIN sets
    THEN [sets EXCEPT ![key] = @ \cup {resSeq}]
    ELSE sets

\* chainMetrics.find(m => m.proteinName === p && m.chainId === c): the index
\* of the first match, 0 for undefined.
FindMetric(cm, p, c) ==
    LET hits == {m \in 1..Len(cm) : cm[m].proteinName = p /\ cm[m].chainId = c}
    IN  IF hits = {} THEN 0 ELSE CHOOSE m \in hits : \A n \in hits : m <= n

\* An "Update metrics" block that counts the residue of atom_a in the
\* metrics entry at once, during the detection pass.
UpdateMetricsEagerly(cm, atom_a, atom_b, isIntra) ==
    LET ma == FindMetric(cm, atom_a.proteinName, atom_a.chainID)
    IN  IF ma = 0 THEN cm
        ELSE [cm EXCEPT ![ma].interactingResidues = @ + 1,
                        ![ma].interProteinInteractions =
                            IF isIntra THEN @ ELSE @ + 1,
                        ![ma].intraProteinInteractions =
                            IF isIntra THEN @ + 1 ELSE @]

\* The "Update metrics" block.
UpdateMetrics(cm, atom_a, atom_b, isIntra) ==
    LET ma == FindMetric(cm, atom_a.proteinName, atom_a.chainID)
        mb == FindMetric(cm, atom_b.proteinName, atom_b.chainID)
        cm1 == IF ma = 0 THEN cm
               ELSE IF isIntra
                    THEN [cm EXCEPT ![ma].intraProteinInteractions = @ + 1]
                    ELSE [cm EXCEPT ![ma].interProteinInteractions = @ + 1]
    IN  IF mb # 0 /\ atom_a.proteinName # atom_b.proteinName
        THEN [cm1 EXCEPT ![mb].interProteinInteractions = @ + 1]
        ELSE cm1

\* One pass of the innermost loop body.  st holds the four collections the
\* detection pass mutates.
ProcessPair(st, atom_a, atom_b) ==
    LET pairKey == PairKey(atom_a, atom_b)
    IN  IF pairKey \in st.checked THEN st
        ELSE
        LET st1 == [st EXCEPT !.checked = @ \cup {pairKey}]
            distSq == DistSq(atom_a, atom_b)
        IN  IF SameAtom(atom_a, atom_b) THEN st1
            ELSE IF ~WithinCutoff(distSq) THEN st1
            ELSE
            LET interaction == MakeInteraction(atom_a, atom_b, SqrtMilli(distSq))
                keyA == ChainKey(atom_a.proteinName, atom_a.chainID)
                keyB == ChainKey(atom_b.proteinName, atom_b.chainID)
            IN  [checked |-> st1.checked,
                 interactions |-> Append(st.interactions, interaction),
                 interactingResiduesByChain |->
                     AddResidue(AddResidue(st.interactingResiduesByChain,
                                           keyA, atom_a.resSeq),
                                keyB, atom_b.resSeq),
                 chainMetrics |->
                     UpdateMetrics(st.chainMetrics, atom_a, atom_b,
                                   interaction.isIntraMolecular)]

RECURSIVE ScanNeighbors(_, _, _, _)
ScanNeighbors(st, atom_a, nbrs, k) ==
    IF k > Len(nbrs) THEN st
    ELSE ScanNeighbors(ProcessPair(st, atom_a, nbrs[k]), atom_a, nbrs, k + 1)

\* One iteration of the outer loop `for (const atom_a of allAtoms)`.
ScanAtom(st, g, atom_a) == ScanNeighbors(st, atom_a, Neighbors(g, atom_a), 1)

RECURSIVE ScanFrom(_, _, _, _)
ScanFrom(st, g, allAtoms, k) ==
    IF k > Len(allAtoms) THEN st
    ELSE ScanFrom(ScanAtom(st, g, allAtoms[k]), g, allAtoms, k + 1)

\* The "Update interacting residue counts" forEach.
FinalizeMetrics(cm, sets) ==
    [m \in 1..Len(cm) |->
        LET key == ChainKey(cm[m].proteinName, cm[m].chainId)
        IN  [cm[m] EXCEPT !.interactingResidues =
                IF key \in DOMAIN sets THEN Cardinality(sets[key]) ELSE 0]]

\* ----------------------------------------------------------- aggregation

\* Index of the entry with this key in an insertion-ordered map, 0 if none.
IndexOfKey(m, key) ==
    LET hits == {k \in 1..Len(m) : m[k].key = key}
    IN  IF hits = {} THEN 0 ELSE CHOOSE k \in hits : TRUE

\* An insertion-ordered map with an entry for key (made with `fresh` if new).
WithKey(m, key, fresh) ==
    IF IndexOfKey(m, key) = 0 THEN Append(m, [key |-> key, val |-> fresh]) ELSE m

\* residue.split(' ')[1] parsed, and residue.split(' ')[0]
ResidueSeqOf(residue) == parseInt(At(Split(residue, <<" ">>), 1))

ResidueNameOf(residue) == At(Split(residue, <<" ">>), 0)

\* One side of an interaction in interfaceResiduesByChain.
TrackInterface(byChain, key, residue, type) ==
    LET resSeq == ResidueSeqOf(residue)
        m1 == WithKey(byChain, key, <<>>)
        c == IndexOfKey(m1, key)
        r1 == WithKey(m1[c].val, resSeq,
                      [name |-> ResidueNameOf(residue), types |-> <<>>])
        r == IndexOfKey(r1, resSeq)
        r2 == [r1 EXCEPT ![r].val.types =
                  IF type \in Range(@) THEN @ ELSE Append(@, type)]
    IN  [m1 EXCEPT ![c].val = r2]

\* A density step that counts a residue when it is first met and leaves it
\* alone afterwards.
TrackDensityFirstTouch(byChain, key, residue, isIntra) ==
    LET resSeq == ResidueSeqOf(residue)
        m1 == WithKey(byChain, key, <<>>)
        c == IndexOfKey(m1, key)
    IN  IF IndexOfKey(m1[c].val, resSeq) # 0 THEN m1
        ELSE [m1 EXCEPT ![c].val =
                 Append(@, [key |-> resSeq,
                            val |-> [name |-> ResidueNameOf(residue),
                                     intra |-> IF isIntra THEN 1 ELSE 0,
                                     inter |-> IF isIntra THEN 0 ELSE 1]])]

\* One side of an interaction in densityByChain.
TrackDensity(byChain, key, residue, isIntra) ==
    LET resSeq == ResidueSeqOf(residue)
        m1 == WithKey(byChain, key, <<>>)
        c == IndexOfKey(m1, key)
        r1 == WithKey(m1[c].val, resSeq,
                      [name |-> ResidueNameOf(residue), intra |-> 0, inter |-> 0])
        r == IndexOfKey(r1, resSeq)
        r2 == IF isIntra THEN [r1 EXCEPT ![r].val.intra = @ + 1]
              ELSE [r1 EXCEPT ![r].val.inter = @ + 1]
    IN  [m1 EXCEPT ![c].val = r2]

RECURSIVE InterfaceByChain(_, _, _)
InterfaceByChain(list, k, acc) ==
    IF k > Len(list) THEN acc
    ELSE LET i == list[k]
             a == TrackInterface(acc, ChainKey(i.proteinA, i.chainA),
                                 i.residueA, i.type)
         IN  InterfaceByChain(list, k + 1,
                 TrackInterface(a, ChainKey(i.proteinB, i.chainB),
                                i.residueB, i.type))

RECURSIVE DensityByChain(_, _, _)
DensityByChain(list, k, acc) ==
    IF k > Len(list) THEN acc
    ELSE LET i == list[k]
             a == TrackDensity(acc, ChainKey(i.proteinA, i.chainA),
                               i.residueA, i.isIntraMolecular)
         IN  DensityByChain(list, k + 1,
                 TrackDensity(a, ChainKey(i.proteinB, i.chainB),
                              i.residueB, i.isIntraMolecular))

\* x put into a list sorted by descending totalCount, after its equals.
InsertByTotal(sorted, x) ==
    LET p == Cardinality({j \in 1..Len(sorted) :
                             sorted[j].totalCount >= x.totalCount})
    IN  SubSeq(sorted, 1, p) \o <<x>> \o SubSeq(sorted, p + 1, Len(sorted))

RECURSIVE SortFrom(_, _, _)
SortFrom(s, k, acc) ==
    IF k > Len(s) THEN acc ELSE SortFrom(s, k + 1, InsertByTotal(acc, s[k]))

\* s.sort((a, b) => b.totalCount - a.totalCount): the sort is stable.
SortByTotalDesc(s) == SortFrom(s, 1, <<>>)

\* The interfaceResidues object: per chain key, the array of its residues.
BuildInterfaceResidues(list) ==
    LET byChain == InterfaceByChain(list, 1, <<>>)
    IN  [c \in 1..Len(byChain) |->
            [key |-> byChain[c].key,
             val |-> [r \in 1..Len(byChain[c].val) |->
                 [chainId |-> At(Split(byChain[c].key, <<":">>), 1),
                  residueSeq |-> byChain[c].val[r].key,
                  residueName |-> byChain[c].val[r].val.name,
                  interactionCount |-> 0,
                  interactionTypes |-> byChain[c].val[r].val.types]]]]

\* The interactionDensity object: per chain key, the sorted array.
BuildInteractionDensity(list) ==
    LET byChain == DensityByChain(list, 1, <<>>)
    IN  [c \in 1..Len(byChain) |->
            [key |-> byChain[c].key,
             val |-> SortByTotalDesc([r \in 1..Len(byChain[c].val) |->
                 [residueSeq |-> byChain[c].val[r].key,
                  residueName |-> byChain[c].val[r].val.name,
                  intraCount |-> byChain[c].val[r].val.intra,
                  interCount |-> byChain[c].val[r].val.inter,
                  totalCount |-> byChain[c].val[r].val.intra
                                    + byChain[c].val[r].val.inter]])]]

PairSeparator == <<" ", "<", "-", ">", " ">>

\* [keyA, keyB].sort().join(' <-> ')
ChainPairKey(i) ==
    LET sorted == SortPair(ChainKey(i.proteinA, i.chainA),
                           ChainKey(i.proteinB, i.chainB))
    IN  sorted[1] \o PairSeparator \o sorted[2]

RECURSIVE ChainPairMap(_, _, _)
ChainPairMap(list, k, acc) ==
    IF k > Len(list) THEN acc
    ELSE LET pair == ChainPairKey(list[k])
             m1 == WithKey(acc, pair, [intra |-> 0, inter |-> 0])
             c == IndexOfKey(m1, pair)
         IN  ChainPairMap(list, k + 1,
                 IF list[k].isIntraMolecular
                 THEN [m1 EXCEPT ![c].val.intra = @ + 1]
                 ELSE [m1 EXCEPT ![c].val.inter = @ + 1])

BuildChainSummary(list) ==
    LET m == ChainPairMap(list, 1, <<>>)
    IN  SortByTotalDesc([c \in 1..Len(m) |->
            [chainA |-> At(Split(m[c].key, PairSeparator), 0),
             chainB |-> At(Split(m[c].key, PairSeparator), 1),
             intraCount |-> m[c].val.intra,
             interCount |-> m[c].val.inter,
             totalCount |-> m[c].val.intra + m[c].val.inter]])

\* The returned object.
\* A result whose inter counter counts the records between two structures
\* only.
MakeResultInterByStructure(abp, cm, list, iface, density, pairs) ==
    [summary |-> [totalProteins |-> Len(Proteins(abp)),
                  totalChains |-> Len(cm),
                  totalAtoms |-> Len(AllAtoms(abp)),
                  totalInteractions |-> Len(list),
                  intraProteinInteractions |->
                      Len(SelectSeq(list, LAMBDA i : i.isIntraMolecular)),
                  interProteinInteractions |->
                      Len(SelectSeq(list, LAMBDA i : i.proteinA # i.proteinB))],
     chains |-> cm,
     interactions |-> list,
     interfaceResidues |-> iface,
     interactionDensity |-> density,
     chainInteractionSummary |-> pairs]

MakeResult(abp, cm, list, iface, density, pairs) ==
    LET totalInteractions == Len(list)
        intraCount == Len(SelectSeq(list, LAMBDA i : i.isIntraMolecular))
    IN  [summary |-> [totalProteins |-> Len(Proteins(abp)),
                      totalChains |-> Len(cm),
                      totalAtoms |-> Len(AllAtoms(abp)),
                      totalInteractions |-> totalInteractions,
                      intraProteinInteractions |-> intraCount,
                      interProteinInteractions |-> totalInteractions - intraCount],
         chains |-> cm,
         interactions |-> list,
         interfaceResidues |-> iface,
         interactionDensity |-> density,
         chainInteractionSummary |-> pairs]

\* analyzeInteractions as a function of its argument.
Analyze(abp) ==
    LET st0 == [checked |-> {},
                interactions |-> <<>>,
                interactingResiduesByChain |-> EmptyResidueSets(abp),
                chainMetrics |-> BuildChainMetrics(abp)]
        st == ScanFrom(st0, BuildGrid(AllAtoms(abp)), AllAtoms(abp), 1)
    IN  MakeResult(abp,
                   FinalizeMetrics(st.chainMetrics, st.interactingResiduesByChain),
                   st.interactions,
                   BuildInterfaceResidues(st.interactions),
                   BuildInteractionDensity(st.interactions),
                   BuildChainSummary(st.interactions))

\* ------------------------------------------------------------- the parser

\* line.startsWith('ATOM') || line.startsWith('HETATM')
IsAtomLine(line) ==
    \/ StartsWith(line, <<"A", "T", "O", "M">>)
    \/ StartsWith(line, <<"H", "E", "T", "A", "T", "M">>)

\* n || 0 for a number n: 0 for NaN (and for 0).
OrZero(n) == IF n = NaN THEN 0 ELSE n

\* The Atom read from the fixed columns of one line.
ParseAtomLine(line, proteinName) ==
    [serial |-> parseInt(Trim(Substring(line, 6, 11))),
     name |-> Trim(Substring(line, 12, 16)),
     altLoc |-> Trim(Substring(line, 16, 17)),
     resName |-> Trim(Substring(line, 17, 20)),
     chainID |-> Trim(Substring(line, 21, 22)),
     resSeq |-> parseInt(Trim(Substring(line, 22, 26))),
     iCode |-> Trim(Substring(line, 26, 27)),
     x |-> parseFloat(Trim(Substring(line, 30, 38))),
     y |-> parseFloat(Trim(Substring(line, 38, 46))),
     z |-> parseFloat(Trim(Substring(line, 46, 54))),
     occupancy |-> OrZero(parseFloat(Trim(Substring(line, 54, 60)))),
     tempFactor |-> OrZero(parseFloat(Trim(Substring(line, 60, 66)))),
     element |-> Trim(Substring(line, 76, 78)),
     charge |-> Trim(Substring(line, 78, 80)),
     proteinName |-> proteinName]

parsePDB(content, proteinName) ==
    LET lines == Pieces(content, "\n")
        atomLines == SelectSeq(lines, IsAtomLine)
    IN  [k \in 1..Len(atomLines) |-> ParseAtomLine(atomLines[k], proteinName)]

\* ------------------------------------------------------- the CSV reports

InteractionHeader ==
    <<"P", "r", "o", "t", "e", "i", "n", "_", "A", ",", "C", "h", "a", "i",
      "n", "_", "A", ",", "R", "e", "s", "i", "d", "u", "e", "_", "A", ",",
      "A", "t", "o", "m", "_", "A", ",", "P", "r", "o", "t", "e", "i", "n",
      "_", "B", ",", "C", "h", "a", "i", "n", "_", "B", ",", "R", "e", "s",
      "i", "d", "u", "e", "_", "B", ",", "A", "t", "o", "m", "_", "B", ",",
      "T", "y", "p", "e", ",", "D", "i", "s", "t", "a", "n", "c", "e", "_",
      "A", "n", "g", "s", "t", "r", "o", "m", ",", "I", "n", "t", "e", "r",
      "a", "c", "t", "i", "o", "n", "_", "C", "a", "t", "e", "g", "o", "r",
      "y", "\n">>

InterProteinHeader ==
    <<"P", "r", "o", "t", "e", "i", "n", "_", "A", ",", "C", "h", "a", "i",
      "n", "_", "A", ",", "R", "e", "s", "i", "d", "u", "e", "_", "A", ",",
      "A", "t", "o", "m", "_", "A", ",", "P", "r", "o", "t", "e", "i", "n",
      "_", "B", ",", "C", "h", "a", "i", "n", "_", "B", ",", "R", "e", "s",
      "i", "d", "u", "e", "_", "B", ",", "A", "t", "o", "m", "_", "B", ",",
      "T", "y", "p", "e", ",", "D", "i", "s", "t", "a", "n", "c", "e", "_",
      "A", "n", "g", "s", "t", "r", "o", "m", "\n">>

IntraProteinHeader ==
    <<"P", "r", "o", "t", "e", "i", "n", ",", "C", "h", "a", "i", "n", "_",
      "A", ",", "C", "h", "a", "i", "n", "_", "B", ",", "R", "e", "s", "i",
      "d", "u", "e", "_", "A", ",", "A", "t", "o", "m", "_", "A", ",", "R",
      "e", "s", "i", "d", "u", "e", "_", "B", ",", "A", "t", "o", "m", "_",
      "B", ",", "T", "y", "p", "e", ",", "D", "i", "s", "t", "a", "n", "c",
      "e", "_", "A", "n", "g", "s", "t", "r", "o", "m", "\n">>

\* `${i.type}`: the text of an interaction type.
TypeText(type) ==
    CASE type = "Hydrogen Bond" ->
             <<"H", "y", "d", "r", "o", "g", "e", "n", " ", "B", "o", "n", "d">>
      [] type = "Salt Bridge" ->
             <<"S", "a", "l", "t", " ", "B", "r", "i", "d", "g", "e">>
      [] type = "Hydrophobic" ->
             <<"H", "y", "d", "r", "o", "p", "h", "o", "b", "i", "c">>
      [] type = "Van der Waals" ->
             <<"V", "a", "n", " ", "d", "e", "r", " ", "W", "a", "a", "l", "s">>
      [] OTHER -> <<"O", "t", "h", "e", "r">>

\* i.isIntraMolecular ? "Intra-Protein" : "Inter-Protein"
CategoryText(isIntra) ==
    IF isIntra
    THEN <<"I", "n", "t", "r", "a", "-", "P", "r", "o", "t", "e", "i", "n">>
    ELSE <<"I", "n", "t", "e", "r", "-", "P", "r", "o", "t", "e", "i", "n">>

\* distance.toFixed(3) of a distance held in thousandths.
ToFixed3(distance) ==
    NatToString(distance \div 1000) \o <<".">>
        \o <<Digits[((distance \div 100) % 10) + 1],
             Digits[((distance \div 10) % 10) + 1],
             Digits[(distance % 10) + 1]>>

\* `"${field}"`
InQuotes(field) == <<"\"">> \o field \o <<"\"">>

RECURSIVE Join(_, _)
\* rows.join(sep), joined half by half so that a list of a thousand rows
\* is joined in ten levels.
Join(rows, sep) ==
    IF rows = <<>> THEN <<>>
    ELSE IF Len(rows) = 1 THEN rows[1]
    ELSE LET half == Len(rows) \div 2
         IN  Join(SubSeq(rows, 1, half), sep) \o sep
                \o Join(SubSeq(rows, half + 1, Len(rows)), sep)

InteractionRow(i) ==
    Join(<<i.proteinA, i.chainA, InQuotes(i.residueA), InQuotes(i.atomA),
           i.proteinB, i.chainB, InQuotes(i.residueB), InQuotes(i.atomB),
           TypeText(i.type), ToFixed3(i.distance),
           CategoryText(i.isIntraMolecular)>>, <<",">>)

InterProteinRow(i) ==
    Join(<<i.proteinA, i.chainA, InQuotes(i.residueA), InQuotes(i.atomA),
           i.proteinB, i.chainB, InQuotes(i.residueB), InQuotes(i.atomB),
           TypeText(i.type), ToFixed3(i.distance)>>, <<",">>)

IntraProteinRow(i) ==
    Join(<<i.proteinA, i.chainA, i.chainB, InQuotes(i.residueA),
           InQuotes(i.atomA), InQuotes(i.residueB), InQuotes(i.atomB),
           TypeText(i.type), ToFixed3(i.distance)>>, <<",">>)

IsIntraRecord(i) == i.isIntraMolecular

IsInterRecord(i) == ~i.isIntraMolecular

generateInteractionCSV(list) ==
    InteractionHeader
        \o Join([k \in 1..Len(list) |-> InteractionRow(list[k])], <<"\n">>)

generateInterProteinCSV(list) ==
    LET filtered == SelectSeq(list, IsInterRecord)
    IN  InterProteinHeader
            \o Join([k \in 1..Len(filtered) |-> InterProteinRow(filtered[k])],
                    <<"\n">>)

generateIntraProteinCSV(list) ==
    LET filtered == SelectSeq(list, IsIntraRecord)
    IN  IntraProteinHeader
            \o Join([k \in 1..Len(filtered) |-> IntraProteinRow(filtered[k])],
                    <<"\n">>)

StructureHeader ==
    <<"P", "r", "o", "t", "e", "i", "n", ",", "C", "h", "a", "i", "n", ",",
      "R", "e", "s", "i", "d", "u", "e", ",", "R", "e", "s", "i", "d", "u",
      "e", "_", "S", "e", "q", ",", "A", "t", "o", "m", "_", "N", "a", "m",
      "e", ",", "A", "t", "o", "m", "_", "S", "e", "r", "i", "a", "l", ",",
      "X", ",", "Y", ",", "Z", ",", "E", "l", "e", "m", "e", "n", "t", ",",
      "O", "c", "c", "u", "p", "a", "n", "c", "y", ",", "B", "_", "F", "a",
      "c", "t", "o", "r", "\n">>

RECURSIVE FractionDigits(_, _)
\* The decimals of rem / Resolution, at most n of them.
FractionDigits(rem, n) ==
    IF rem = 0 \/ n = 0 THEN <<>>
    ELSE <<Digits[((rem * 10) \div Resolution) + 1]>>
             \o FractionDigits((rem * 10) % Resolution, n - 1)

\* `${v}` for a number v held in coordinate units (1/Resolution).
NumberText(v) ==
    LET size == IF v < 0 THEN 0 - v ELSE v
        digits == NatToString(size \div Resolution)
                      \o (IF size % Resolution = 0 THEN <<>>
                          ELSE <<".">> \o FractionDigits(size % Resolution, 16))
    IN  IF v = NaN THEN <<"N", "a", "N">>
        ELSE IF v < 0 THEN <<"-">> \o digits ELSE digits

StructureRow(a) ==
    Join(<<a.proteinName, a.chainID, a.resName, NumToString(a.resSeq),
           a.name, NumToString(a.serial), NumberText(a.x), NumberText(a.y),
           NumberText(a.z), a.element, NumberText(a.occupancy),
           NumberText(a.tempFactor)>>, <<",">>)

generateStructureCSV(atoms) ==
    StructureHeader
        \o Join([k \in 1..Len(atoms) |-> StructureRow(atoms[k])], <<"\n">>)

\* ------------------------------------------------------------ the inputs

\* Structure labels (request names are free text) and, per label, the chain
\* identifiers its atoms may carry (column 22 of the record, trimmed: one
\* character or none).
LabelX == <<"X">>

LabelXC == <<"X", ":">>

ChainsOf(label) ==
    IF label = LabelX THEN <<(<<"A">>), (<<":">>)>> ELSE <<(<<"A">>), (<<>>)>>

ResNameOf(resSeq) == IF resSeq < 0 THEN <<"A", "S", "P">> ELSE <<"A", "L", "A">>

\* Positions <<x, y, z>> in coordinate units.  With Resolution = 2 the first
\* is 3.0 Angstrom from the second and exactly 5.0 from the third, the second
\* and the third are 5.83 apart; the three lie in three adjacent grid cells.
Points == {<<0, 0, 0>>, <<0, 0 - 6, 0>>, <<8, 0, 0 - 6>>}

MkAtom(label, serial, chainID, resSeq, resName, element, pos) ==
    [serial |-> serial,
     name |-> <<"C", "A">>,
     resName |-> resName,
     chainID |-> chainID,
     resSeq |-> resSeq,
     x |-> pos[1],
     y |-> pos[2],
     z |-> pos[3],
     element |-> element,
     proteinName |-> label]

\* The residues an atom of a topology input may belong to: one residue of
\* the structure's first chain and two of its second chain.
Residues ==
    {[chain |-> 1, resSeq |-> 12], [chain |-> 2, resSeq |-> 0 - 1],
     [chain |-> 2, resSeq |-> 12]}

\* What is free about one atom of a topology input.
AtomChoices == [residue : Residues, pos : Points]

\* Serial of the j-th of m atoms of a file numbered upwards or downwards.
SerialOf(j, m, downwards) == IF downwards THEN m + 1 - j ELSE j

StructureOf(label, cs, downwards) ==
    [name |-> label,
     atoms |-> [j \in 1..Len(cs) |->
        MkAtom(label, SerialOf(j, Len(cs), downwards),
               ChainsOf(label)[cs[j].residue.chain], cs[j].residue.resSeq,
               ResNameOf(cs[j].residue.resSeq), <<"N">>, cs[j].pos)]]

\* The first k chosen atoms form structure X, numbered upwards from 1; the
\* others form structure X: , numbered downwards to 1.
TopologyInput(cs, k) ==
    IF Len(cs) = 0 THEN <<>>
    ELSE <<StructureOf(LabelX, SubSeq(cs, 1, k), FALSE)>>
         \o (IF k < Len(cs)
             THEN <<StructureOf(LabelXC, SubSeq(cs, k + 1, Len(cs)), TRUE)>>
             ELSE <<>>)

TopologyInputs ==
    UNION {{TopologyInput(cs, k) :
                cs \in [1..n -> AtomChoices],
                k \in (IF n = 0 THEN {0} ELSE 1..n)} : n \in 0..MaxAtoms}

\* A structure label that holds the text joining the two labels of a chain
\* pair key, and the inputs of one structure with this label.
LabelXX == <<"X", " ", "<", "-", ">", " ", "X">>

SeparatorInputs ==
    UNION {{<<StructureOf(LabelXX, cs, FALSE)>> :
                cs \in [1..n -> AtomChoices]} : n \in 1..MaxAtoms}

\* Largest number of atoms of an implausible input.
MaxOddAtoms == 2

\* Implausible atoms of structure X: a residue name and an element symbol
\* outside the known sets or inside, a blank chain identifier or chain A,
\* one of two positions (so that two atoms may coincide), occupancy 0.
UnknownResidue == <<"U", "N", "K">>

UnknownElement == <<"Q">>

OddAtomChoices ==
    [resName : {UnknownResidue, <<"A", "S", "P">>},
     element : {UnknownElement, <<"N">>},
     chainID : {<<>>, <<"A">>},
     pos : {<<0, 0, 0>>, <<0, 0 - 6, 0>>}]

OddAtom(c, serial) ==
    MkAtom(LabelX, serial, c.chainID, 12, c.resName, c.element, c.pos)
        @@ [occupancy |-> 0, tempFactor |-> 0]

\* No structure at all, a structure without atoms, and the structures of up
\* to MaxOddAtoms implausible atoms.
ImplausibleInputs ==
    {<<>>}
    \cup UNION {{<<[name |-> LabelX,
                    atoms |-> [j \in 1..n |-> OddAtom(cs[j], j)]]>> :
                     cs \in [1..n -> OddAtomChoices]} : n \in 0..MaxOddAtoms}

\* Two atoms of one structure whose elements, residue names and distance
\* (3.0, 3.5 or 4.5 Angstrom with Resolution = 2) run through every branch
\* of the classification.
Elements == {<<"N">>, <<"O">>, <<"C">>}

ResNames ==
    {<<"A", "S", "P">>, <<"H", "I", "S">>, <<"A", "L", "A">>,
     <<"T", "R", "P">>, <<"G", "L", "Y">>}

Gaps == {6, 7, 9}

ClassifyInputs ==
    {<<[name |-> LabelX,
        atoms |-> <<MkAtom(LabelX, 1, <<"A">>, 12, ra, ea, <<0, 0, 0>>),
                    MkAtom(LabelX, 2, cb, 12, rb, eb, <<gap, 0, 0>>)>>]>> :
        ra \in ResNames, rb \in ResNames, ea \in Elements, eb \in Elements,
        gap \in Gaps, cb \in {<<"A">>}}

\* Largest coordinate, in coordinate units, of an atom of a grid input.
GridSpan == 11

\* Two atoms of one structure: the first anywhere on the x axis from
\* -GridSpan to GridSpan, the second anywhere on the same stretch, on the
\* axis or one unit below zero in y, and level with the first or 4 Angstrom
\* below it in z, so that the pair straddles cell borders on either side of
\* zero.
GridInputs ==
    {<<[name |-> LabelX,
        atoms |-> <<MkAtom(LabelX, 1, <<"A">>, 12, <<"A", "L", "A">>, <<"C">>,
                           <<xa, 0, 0>>),
                    MkAtom(LabelX, 2, <<"A">>, 12, <<"A", "L", "A">>, <<"C">>,
                           <<xb, yb, zb>>)>>]>> :
        xa \in (0 - GridSpan)..GridSpan, xb \in (0 - GridSpan)..GridSpan,
        yb \in {0 - 1, 0}, zb \in {0 - 4 * Resolution, 0}}

\* Largest number of ATOM/HETATM lines in one text.
MaxLines == 2

Blanks(n) == [k \in 1..n |-> " "]

PadLeft(text, width) == Blanks(width - Len(text)) \o text

\* The texts of the residue number column: a number, and a blank column.
ResSeqTexts == {<<"1", "2">>, <<>>}

\* The texts of the y column: 0 and 3 Angstrom below.
YTexts == {<<"0", ".", "0", "0", "0">>, <<"-", "3", ".", "0", "0", "0">>}

\* The occupancy and temperature factor columns: filled in, or both blank.
OptionalTexts ==
    {<<<<"1", ".", "0", "0">>, <<"2", "0", ".", "0", "0">>>>, <<<<>>, <<>>>>}

Markers == {<<"A", "T", "O", "M", " ", " ">>, <<"H", "E", "T", "A", "T", "M">>}

LineChoices ==
    [marker : Markers, resSeq : ResSeqTexts, y : YTexts,
     optional : OptionalTexts]

\* The 80 columns of an atom line with the given serial.
PdbLine(c, serial) ==
    c.marker \o PadLeft(NatToString(serial), 5) \o <<" ">>
        \o <<" ", "C", "A", " ">> \o <<" ">> \o <<"A", "S", "P">> \o <<" ">>
        \o <<"A">> \o PadLeft(c.resSeq, 4) \o <<" ">> \o Blanks(3)
        \o PadLeft(<<"0", ".", "0", "0", "0">>, 8) \o PadLeft(c.y, 8)
        \o PadLeft(<<"0", ".", "0", "0", "0">>, 8)
        \o PadLeft(c.optional[1], 6) \o PadLeft(c.optional[2], 6)
        \o Blanks(10) \o <<" ", "N">> \o Blanks(2)

RemarkLine == <<"R", "E", "M", "A", "R", "K", " ", "1">>

\* Texts of up to MaxLines atom lines, numbered from 1, each line ended by
\* a line feed, after a REMARK line or not.
PdbTexts ==
    UNION {{first \o Flatten([k \in 1..n |-> PdbLine(cs[k], k) \o <<"\n">>]) :
                cs \in [1..n -> LineChoices],
                first \in {<<>>, RemarkLine \o <<"\n">>}} :
           n \in 0..MaxLines}

\* The argument of analyzeInteractions as the create-analysis handler builds
\* it from the text of one source named X; the handler goes on only when
\* the text has given at least one atom.
ParsedInputs ==
    {<<[name |-> LabelX, atoms |-> parsePDB(content, LabelX)]>> :
        content \in {c \in PdbTexts : parsePDB(c, LabelX) # <<>>}}

\* ------------------------------------------------------------ the routes

\* What one run of the create-analysis handler has done: the responses it
\* has sent, the accession codes it has asked the archive for, the names it
\* has called parsePDB for, the arguments it has called analyzeInteractions
\* with, the rows it has inserted, and its local atomsByProtein.
NoOutcome ==
    [responses |-> <<>>, fetches |-> <<>>, parsed |-> <<>>, analyzed |-> <<>>,
     rows |-> <<>>, atomsByProtein |-> <<>>]

\* res.status(status).json({ message })
Respond(o, status, message) ==
    [o EXCEPT !.responses =
        Append(@, [status |-> status, message |-> message])]

\* record[key] = val on a JavaScript object: an existing key keeps its
\* place and takes the new value, a new key goes last.
Assign(record, key, val) ==
    IF \E k \in 1..Len(record) : record[k].name = key
    THEN [k \in 1..Len(record) |->
            IF record[k].name = key THEN [name |-> key, atoms |-> val]
            ELSE record[k]]
    ELSE Append(record, [name |-> key, atoms |-> val])

CouldNotFetch == "Could not fetch PDB ID"

NoContent == "No PDB content for protein"

NoAtomsFound == "Invalid PDB content: No atoms found"

InternalError == "Internal Server Error"

ValidationError == "validation"

\* The loop without the atoms.length === 0 return: a source with no atom
\* goes into atomsByProtein like any other.
RECURSIVE ProcessSourcesKeepingEmpty(_, _, _)
ProcessSourcesKeepingEmpty(rq, k, o) ==
    IF k > Len(rq.proteinSources) THEN o
    ELSE
        LET source == rq.proteinSources[k]
            given == rq.proteinContents[source.name]
            fetching == given = <<>> /\ source.pdbId # <<>>
            fetched == rq.fetch[source.pdbId]
            asked == IF fetching
                     THEN [o EXCEPT !.fetches = Append(@, source.pdbId)]
                     ELSE o
        IN  IF fetching /\ fetched.kind # "ok"
            THEN Respond(asked, 400, CouldNotFetch)
            ELSE
                LET pdbContent == IF fetching THEN fetched.text ELSE given
                    atoms == parsePDB(pdbContent, source.name)
                    called == [asked EXCEPT !.parsed = Append(@, source.name)]
                IN  IF pdbContent = <<>> THEN Respond(asked, 400, NoContent)
                    ELSE ProcessSourcesKeepingEmpty(rq, k + 1,
                            [called EXCEPT !.atomsByProtein =
                                Assign(@, source.name, atoms)])

\* The loop with a catch clause that only logs a failed download: the
\* source is then handled as one without content.
RECURSIVE ProcessSourcesSwallowingFetchError(_, _, _)
ProcessSourcesSwallowingFetchError(rq, k, o) ==
    IF k > Len(rq.proteinSources) THEN o
    ELSE
        LET source == rq.proteinSources[k]
            given == rq.proteinContents[source.name]
            fetching == given = <<>> /\ source.pdbId # <<>>
            fetched == rq.fetch[source.pdbId]
            asked == IF fetching
                     THEN [o EXCEPT !.fetches = Append(@, source.pdbId)]
                     ELSE o
            pdbContent == IF fetching THEN fetched.text ELSE given
            atoms == parsePDB(pdbContent, source.name)
            called == [asked EXCEPT !.parsed = Append(@, source.name)]
        IN  IF pdbContent = <<>> THEN Respond(asked, 400, NoContent)
            ELSE IF atoms = <<>> THEN Respond(called, 400, NoAtomsFound)
            ELSE ProcessSourcesSwallowingFetchError(rq, k + 1,
                    [called EXCEPT !.atomsByProtein =
                        Assign(@, source.name, atoms)])

\* The loop over input.proteinSources from source k on; a return inside
\* the loop ends the handler.
RECURSIVE ProcessSources(_, _, _)
ProcessSources(rq, k, o) ==
    IF k > Len(rq.proteinSources) THEN o
    ELSE
        LET source == rq.proteinSources[k]
            given == rq.proteinContents[source.name]
            fetching == given = <<>> /\ source.pdbId # <<>>
            fetched == rq.fetch[source.pdbId]
            asked == IF fetching
                     THEN [o EXCEPT !.fetches = Append(@, source.pdbId)]
                     ELSE o
        IN  IF fetching /\ fetched.kind # "ok"
            THEN Respond(asked, 400, CouldNotFetch)
            ELSE
                LET pdbContent == IF fetching THEN fetched.text ELSE given
                    atoms == parsePDB(pdbContent, source.name)
                    called == [asked EXCEPT !.parsed = Append(@, source.name)]
                IN  IF pdbContent = <<>> THEN Respond(asked, 400, NoContent)
                    ELSE IF atoms = <<>>
                    THEN Respond(called, 400, NoAtomsFound)
                    ELSE ProcessSources(rq, k + 1,
                            [called EXCEPT !.atomsByProtein =
                                Assign(@, source.name, atoms)])

\* The handler with the analysis and the insert done on whatever the loop
\* has gathered, before looking at whether the loop has sent a rejection.
CreateAnalysisSavingPartial(rq) ==
    IF ~rq.valid THEN Respond(NoOutcome, 400, ValidationError)
    ELSE
        LET o == ProcessSources(rq, 1, NoOutcome)
            analyzed == [o EXCEPT !.analyzed = Append(@, o.atomsByProtein)]
            session == [status |-> "completed",
                        proteinSources |-> rq.proteinSources,
                        result |-> Analyze(o.atomsByProtein)]
            saved == [analyzed EXCEPT !.rows = Append(@, session)]
        IN  IF rq.insertThrows THEN Respond(analyzed, 500, InternalError)
            ELSE IF o.responses # <<>> THEN saved
            ELSE Respond(saved, 201, "")

\* POST create analysis: validation, the loop over the sources, the
\* combined analysis, the insert and the 201 response; the catch clause
\* answers a validation error with 400 and any other throw with 500.
CreateAnalysis(rq) ==
    IF ~rq.valid THEN Respond(NoOutcome, 400, ValidationError)
    ELSE
        LET o == ProcessSources(rq, 1, NoOutcome)
            analyzed == [o EXCEPT !.analyzed = Append(@, o.atomsByProtein)]
            session == [status |-> "completed",
                        proteinSources |-> rq.proteinSources,
                        result |-> Analyze(o.atomsByProtein)]
        IN  IF o.responses # <<>> THEN o
            ELSE IF rq.insertThrows THEN Respond(analyzed, 500, InternalError)
            ELSE Respond([analyzed EXCEPT !.rows = Append(@, session)],
                         201, "")

\* Largest number of sources in one request.
MaxSources == 2

SourceNames == {LabelX, LabelXC}

PdbIds == {<<"1", "C", "R", "N">>, <<"4", "H", "H", "B">>}

FilledLine(y) ==
    [marker |-> <<"A", "T", "O", "M", " ", " ">>, resSeq |-> <<"1", "2">>,
     y |-> y, optional |-> <<<<"1", ".", "0", "0">>,
                             <<"2", "0", ".", "0", "0">>>>]

NoAtomText == RemarkLine \o <<"\n">>

OneAtomText == PdbLine(FilledLine(<<"0", ".", "0", "0", "0">>), 1) \o <<"\n">>

TwoAtomText ==
    OneAtomText
        \o PdbLine(FilledLine(<<"-", "3", ".", "0", "0", "0">>), 2)
        \o <<"\n">>

\* The text the remote archive holds under an accession code.
ArchiveText(pdbId) ==
    IF pdbId = <<"1", "C", "R", "N">> THEN OneAtomText ELSE TwoAtomText

\* What the download of one accession code gives: the text, a non-success
\* status, or a network error.
FetchOutcomes(pdbId) ==
    {[kind |-> "ok", text |-> ArchiveText(pdbId)],
     [kind |-> "status", text |-> <<>>],
     [kind |-> "network", text |-> <<>>]}

\* Request bodies that pass validation, each with what the remote archive and
\* the database do while it is handled, and one body that fails validation.
\* A name without an entry in proteinContents reads as the empty text.
ValidRequests ==
    [proteinSources :
        UNION {[1..n -> [name : SourceNames, pdbId : PdbIds \cup {<<>>}]] :
               n \in 0..MaxSources},
     proteinContents : [SourceNames -> {<<>>, NoAtomText, TwoAtomText}],
     fetch : {f \in [PdbIds -> UNION {FetchOutcomes(i) : i \in PdbIds}] :
                 \A i \in PdbIds : f[i] \in FetchOutcomes(i)},
     insertThrows : BOOLEAN,
     valid : {TRUE}]

Requests ==
    ValidRequests
        \cup {[proteinSources |-> <<>>,
               proteinContents |-> [n \in SourceNames |-> <<>>],
               fetch |-> [i \in PdbIds |-> [kind |-> "network", text |-> <<>>]],
               insertThrows |-> FALSE, valid |-> FALSE]}

\* Every request with what the handler did on it.
Handled == {[request |-> rq, outcome |-> CreateAnalysis(rq)] : rq \in Requests}

\* The arguments the handler calls analyzeInteractions with: atomsByProtein
\* after a loop that has sent no response.
RequestInputs ==
    {o.atomsByProtein :
        o \in {p \in {ProcessSources(rq, 1, NoOutcome) : rq \in ValidRequests} :
                    p.responses = <<>>}}

\* --------------------------------------------- the read and export routes

\* storage.getAnalysisSession(id): the rows the select gives, each a fresh
\* object read from the table.
getAnalysisSession(db, id) == SelectSeq(db, LAMBDA row : row.id = id)

\* The number of interactions above which the GET response is cut.
DisplayLimit == 1000

Answer(db, status, body) ==
    [db |-> db, response |-> [status |-> status, body |-> body]]

\* The GET handler over a storage that hands out its own row objects: the
\* cut made for the response is a cut of the stored row.
GetAnalysisOnSharedRows(db, id) ==
    LET found == getAnalysisSession(db, id)
        session == found[1]
        full == session.result.interactions
        cut == [session EXCEPT !.result =
                    [fullInteractionsCount |-> Len(full)]
                        @@ [@ EXCEPT !.interactions =
                                SubSeq(full, 1, DisplayLimit)]]
    IN  IF id = NaN THEN Answer(db, 400, "Invalid ID")
        ELSE IF found = <<>>
        THEN Answer(db, 404, "Analysis session not found")
        ELSE IF Len(full) > DisplayLimit
        THEN Answer([k \in 1..Len(db) |->
                        IF db[k].id = id THEN cut ELSE db[k]], 200, cut)
        ELSE Answer(db, 200, session)

\* GET analysis: the session, with result.interactions cut to the first
\* DisplayLimit records and result.fullInteractionsCount set when the list
\* is longer. The cut is made on the object read for this request.
GetAnalysis(db, id) ==
    LET found == getAnalysisSession(db, id)
        session == found[1]
        full == session.result.interactions
        cut == [session EXCEPT !.result =
                    [fullInteractionsCount |-> Len(full)]
                        @@ [@ EXCEPT !.interactions =
                                SubSeq(full, 1, DisplayLimit)]]
    IN  IF id = NaN THEN Answer(db, 400, "Invalid ID")
        ELSE IF found = <<>>
        THEN Answer(db, 404, "Analysis session not found")
        ELSE IF Len(full) > DisplayLimit THEN Answer(db, 200, cut)
        ELSE Answer(db, 200, session)

\* GET inter-protein CSV.
DownloadInterProtein(db, id) ==
    LET found == getAnalysisSession(db, id)
    IN  IF found = <<>>
        THEN Answer(db, 404, "Analysis session or result not found")
        ELSE Answer(db, 200,
                    generateInterProteinCSV(found[1].result.interactions))

\* GET intra-protein CSV.
DownloadIntraProtein(db, id) ==
    LET found == getAnalysisSession(db, id)
    IN  IF found = <<>>
        THEN Answer(db, 404, "Analysis session or result not found")
        ELSE Answer(db, 200,
                    generateIntraProteinCSV(found[1].result.interactions))

Handle(db, req) ==
    IF req.route = "get" THEN GetAnalysis(db, req.id)
    ELSE IF req.route = "inter" THEN DownloadInterProtein(db, req.id)
    ELSE DownloadIntraProtein(db, req.id)

\* The requests served one after the other: the storage after the last one
\* and the responses in order.
RECURSIVE Serve(_, _)
Serve(db, reqs) ==
    IF reqs = <<>> THEN [db |-> db, responses |-> <<>>]
    ELSE
        LET first == Handle(db, reqs[1])
            rest == Serve(first.db, Tail(reqs))
        IN  [db |-> rest.db, responses |-> <<first.response>> \o rest.responses]

\* Largest number of read and export requests on one stored session.
MaxRequests == 2

\* The stored session has id 1; no session has id 2.
ReadRequests ==
    {[route |-> "get", id |-> 1], [route |-> "inter", id |-> 1],
     [route |-> "intra", id |-> 1], [route |-> "get", id |-> 2],
     [route |-> "get", id |-> NaN]}

RequestSeqs == UNION {[1..n -> ReadRequests] : n \in 1..MaxRequests}

\* A list of n records that repeats the records of a list, each with an id
\* of its own.
Inflate(list, n) ==
    [k \in 1..n |->
        [list[((k - 1) % Len(list)) + 1] EXCEPT !.id = NatToString(k)]]

\* The table after a create-analysis request has stored a result.
Stored(res) == <<[id |-> 1, status |-> "completed", result |-> res]>>

EmptyResult == MakeResult(<<>>, <<>>, <<>>, <<>>, <<>>, <<>>)

Start(inputs) ==
    /\ atomsByProtein \in inputs
    /\ pc = "metrics"
    /\ idx = 1
    /\ chainMetrics = <<>>
    /\ interactingResiduesByChain = <<>>
    /\ grid = <<>>
    /\ checked = {}
    /\ interactions = <<>>
    /\ interfaceResidues = <<>>
    /\ interactionDensity = <<>>
    /\ chainInteractionSummary = <<>>
    /\ result = EmptyResult

Init == Start(TopologyInputs)

InitGrid == Start(GridInputs)

InitParsed == Start(ParsedInputs)

InitRequest == Start(RequestInputs)

InitClassify == Start(ClassifyInputs)

InitSeparator == Start(SeparatorInputs)

InitImplausible == Start(ImplausibleInputs)

\* ----------------------------------------------------------- the actions

\* "Build chain metrics": the loop over the proteins.
InitChainMetrics ==
    /\ pc = "metrics"
    /\ chainMetrics' = BuildChainMetrics(atomsByProtein)
    /\ interactingResiduesByChain' = EmptyResidueSets(atomsByProtein)
    /\ pc' = "grid"
    /\ UNCHANGED <<atomsByProtein, idx, grid, checked, interactions,
                   interfaceResidues, interactionDensity,
                   chainInteractionSummary, result>>

\* A grid fill that takes the atoms out of the caller's sequences while it
\* files them (shift() instead of an iteration).
FillGridConsumingInput ==
    /\ pc = "grid"
    /\ grid' = BuildGrid(AllAtoms(atomsByProtein))
    /\ atomsByProtein' = [k \in 1..Len(atomsByProtein) |->
                             [name |-> atomsByProtein[k].name, atoms |-> <<>>]]
    /\ idx' = 1
    /\ pc' = "scan"
    /\ UNCHANGED <<chainMetrics, interactingResiduesByChain, checked,
                   interactions, interfaceResidues, interactionDensity,
                   chainInteractionSummary, result>>

\* "Spatial grid": the loop that fills the grid.
FillGrid ==
    /\ pc = "grid"
    /\ grid' = BuildGrid(AllAtoms(atomsByProtein))
    /\ idx' = 1
    /\ pc' = "scan"
    /\ UNCHANGED <<atomsByProtein, chainMetrics, interactingResiduesByChain,
                   checked, interactions, interfaceResidues,
                   interactionDensity, chainInteractionSummary, result>>

\* One iteration of the detection loop: atom_a against its 27 cells.
ScanStep ==
    /\ pc = "scan"
    /\ idx <= Len(AllAtoms(atomsByProtein))
    /\ LET st == ScanAtom([checked |-> checked,
                           interactions |-> interactions,
                           interactingResiduesByChain |->
                               interactingResiduesByChain,
                           chainMetrics |-> chainMetrics],
                          grid, AllAtoms(atomsByProtein)[idx])
       IN  /\ checked' = st.checked
           /\ interactions' = st.interactions
           /\ interactingResiduesByChain' = st.interactingResiduesByChain
           /\ chainMetrics' = st.chainMetrics
    /\ idx' = idx + 1
    /\ UNCHANGED <<atomsByProtein, pc, grid, interfaceResidues,
                   interactionDensity, chainInteractionSummary, result>>

\* "Update interacting residue counts", after the last atom.
Finalize ==
    /\ pc = "scan"
    /\ idx > Len(AllAtoms(atomsByProtein))
    /\ chainMetrics' = FinalizeMetrics(chainMetrics, interactingResiduesByChain)
    /\ pc' = "views"
    /\ UNCHANGED <<atomsByProtein, idx, interactingResiduesByChain, grid,
                   checked, interactions, interfaceResidues,
                   interactionDensity, chainInteractionSummary, result>>

\* "Build interface residues data and interaction density".
BuildResidueViews ==
    /\ pc = "views"
    /\ interfaceResidues' = BuildInterfaceResidues(interactions)
    /\ interactionDensity' = BuildInteractionDensity(interactions)
    /\ pc' = "summary"
    /\ UNCHANGED <<atomsByProtein, idx, chainMetrics,
                   interactingResiduesByChain, grid, checked, interactions,
                   chainInteractionSummary, result>>

\* "Build chain-to-chain interaction summary".
SummarizeChainPairs ==
    /\ pc = "summary"
    /\ chainInteractionSummary' = BuildChainSummary(interactions)
    /\ pc' = "return"
    /\ UNCHANGED <<atomsByProtein, idx, chainMetrics,
                   interactingResiduesByChain, grid, checked, interactions,
                   interfaceResidues, interactionDensity, result>>

\* The return statement.
Return ==
    /\ pc = "return"
    /\ result' = MakeResult(atomsByProtein, chainMetrics, interactions,
                            interfaceResidues, interactionDensity,
                            chainInteractionSummary)
    /\ pc' = "done"
    /\ UNCHANGED <<atomsByProtein, idx, chainMetrics,
                   interactingResiduesByChain, grid, checked, interactions,
                   interfaceResidues, interactionDensity,
                   chainInteractionSummary>>

Next ==
    \/ InitChainMetrics
    \/ FillGrid
    \/ ScanStep
    \/ Finalize
    \/ BuildResidueViews
    \/ SummarizeChainPairs
    \/ Return

Spec == Init /\ [][Next]_vars

SpecClassify == InitClassify /\ [][Next]_vars

SpecSeparator == InitSeparator /\ [][Next]_vars

SpecImplausible == InitImplausible /\ [][Next]_vars

SpecGrid == InitGrid /\ [][Next]_vars

SpecParsed == InitParsed /\ [][Next]_vars

SpecRequest == InitRequest /\ [][Next]_vars

\* ---------------------------------------------- the brute-force variant

\* The all-pairs detector of the repository's earlier analyzeInteractions:
\* every i < j of allAtoms, the same "skip same atom" test and the same
\* cutoff.  Each hit as the unordered pair of structure-qualified atoms with
\* its distance.
BruteForce(abp) ==
    LET all == AllAtoms(abp)
    IN  {[pair |-> {<<all[i].proteinName, all[i].serial>>,
                    <<all[j].proteinName, all[j].serial>>},
          distance |-> SqrtMilli(DistSq(all[i], all[j]))] :
            <<i, j>> \in {p \in (1..Len(all)) \X (1..Len(all)) :
                /\ p[1] < p[2]
                /\ ~(all[p[1]].serial = all[p[2]].serial
                     /\ all[p[1]].proteinName = all[p[2]].proteinName)
                /\ DistSq(all[p[1]], all[p[2]]) <= 25 * Resolution * Resolution}}

\* ------------------------------------------------------------ the claims

\* The structure-qualified atoms of an Interaction record: the structure
\* label with the serial read back from the record's id.
EndA(i) == <<i.proteinA, parseInt(At(Split(i.id, <<"-">>), 0))>>

EndB(i) == <<i.proteinB, parseInt(At(Split(i.id, <<"-">>), 1))>>

PairOf(i) == {EndA(i), EndB(i)}

\* The input atom with this structure label and serial.
AtomAt(end) ==
    CHOOSE a \in Range(AllAtoms(atomsByProtein)) :
        a.proteinName = end[1] /\ a.serial = end[2]

Done == pc = "done"

\* C1: the grid-based detector returns the unordered atom pairs, each with
\* its distance, that the brute-force all-pairs detector returns, also when
\* the structures number their atoms independently.
C1_GridEqualsBruteForce ==
    Done =>
        {[pair |-> PairOf(i), distance |-> i.distance] :
            i \in Range(result.interactions)} = BruteForce(atomsByProtein)

\* C2: no unordered structure-qualified atom pair is in two Interaction
\* records, and no record has one atom as both endpoints.
C2_NoDuplicateNoSelfPair ==
    /\ \A p, q \in 1..Len(interactions) :
           p # q => PairOf(interactions[p]) # PairOf(interactions[q])
    /\ \A p \in 1..Len(interactions) :
           EndA(interactions[p]) # EndB(interactions[p])
    /\ Done => result.interactions = interactions

\* C2 witness: a finished run over two structures that repeat a serial,
\* with an interaction between two atoms of the same serial and another one.
C2_Witness ==
    /\ Done
    /\ Len(result.interactions) >= 2
    /\ \E i \in Range(result.interactions) :
           EndA(i)[2] = EndB(i)[2] /\ EndA(i)[1] # EndB(i)[1]

\* C3: every Interaction has a distance from 0 to 5.0 Angstrom, which is the
\* distance of its two atoms, and two atoms farther apart than 5.0 have no
\* Interaction.
C3_DistanceWithinCutoff ==
    \A i \in Range(interactions) :
        LET d2 == DistSq(AtomAt(EndA(i)), AtomAt(EndB(i)))
        IN  /\ d2 <= 25 * Resolution * Resolution
            /\ i.distance = SqrtMilli(d2)
            /\ 0 <= i.distance /\ i.distance <= 5000

\* C3 witness: a finished run with an Interaction at exactly 5.0 Angstrom and
\* two atoms in adjacent cells, farther apart than 5.0, without one.
C3_Witness ==
    /\ Done
    /\ \E i \in Range(result.interactions) : i.distance = 5000
    /\ \E a, b \in Range(AllAtoms(atomsByProtein)) :
           /\ DistSq(a, b) > 25 * Resolution * Resolution
           /\ \A i \in Range(result.interactions) :
                  PairOf(i) # {<<a.proteinName, a.serial>>,
                               <<b.proteinName, b.serial>>}

\* The reference classification of C4, by precedence.
ReferenceCategory(elementA, elementB, residueA, residueB, distance) ==
    CASE distance < 3500 /\ elementA \in {<<"N">>, <<"O">>}
             /\ elementB \in {<<"N">>, <<"O">>} -> "Hydrogen Bond"
      [] distance < 3500 /\ ~(elementA \in {<<"N">>, <<"O">>}
                              /\ elementB \in {<<"N">>, <<"O">>})
             /\ isCharged(residueA) /\ isCharged(residueB) -> "Salt Bridge"
      [] distance < 3500 /\ ~(elementA \in {<<"N">>, <<"O">>}
                              /\ elementB \in {<<"N">>, <<"O">>})
             /\ ~(isCharged(residueA) /\ isCharged(residueB)) -> "Van der Waals"
      [] distance >= 3500 /\ isHydrophobic(residueA) /\ isHydrophobic(residueB)
             -> "Hydrophobic"
      [] OTHER -> "Van der Waals"

\* C4: the category of every Interaction is the reference classification
\* of its atoms' elements and residue names and its distance.
C4_CategoryIsReference ==
    \A i \in Range(interactions) :
        LET a == AtomAt(EndA(i))
            b == AtomAt(EndB(i))
        IN  i.type = ReferenceCategory(a.element, b.element, a.resName,
                                       b.resName, i.distance)

\* C4 witness: a pair closer than 3.5 Angstrom of two N/O atoms in two
\* charged residues, classified Hydrogen Bond.
C4_Witness ==
    /\ Done
    /\ \E i \in Range(result.interactions) :
           LET a == AtomAt(EndA(i))
               b == AtomAt(EndB(i))
           IN  /\ i.distance < 3500
               /\ IsNO(a.element) /\ IsNO(b.element)
               /\ isCharged(a.resName) /\ isCharged(b.resName)
               /\ i.type = "Hydrogen Bond"

SeqOrders(s) ==
    {[k \in 1..Len(s) |-> s[p[k]]] : p \in Permutations(1..Len(s))}

RECURSIVE InputOrders(_)
\* The inputs with the same atoms per structure, in any order.
InputOrders(abp) ==
    IF abp = <<>> THEN {<<>>}
    ELSE {<<[name |-> Head(abp).name, atoms |-> atoms]>> \o rest :
             atoms \in SeqOrders(Head(abp).atoms),
             rest \in InputOrders(Tail(abp))}

\* The numeric values of a result, without the order of its lists.
Numbers(r) ==
    [summary |-> r.summary,
     chains |-> Range(r.chains),
     density |-> {[key |-> r.interactionDensity[c].key,
                   entries |-> Range(r.interactionDensity[c].val)] :
                     c \in 1..Len(r.interactionDensity)},
     pairs |-> Range(r.chainInteractionSummary)]

\* C6: the numeric values of the result do not depend on the order of the
\* atoms inside the input sequences.
C6_OrderIndependentNumbers ==
    Done => \A other \in InputOrders(atomsByProtein) :
                Numbers(Analyze(other)) = Numbers(result)

\* The sides (record, endpoint) of the interaction list that lie in a chain.
SidesIn(list, proteinName, chainId) ==
    {<<k, "A">> : k \in {j \in 1..Len(list) :
        list[j].proteinA = proteinName /\ list[j].chainA = chainId}}
    \cup
    {<<k, "B">> : k \in {j \in 1..Len(list) :
        list[j].proteinB = proteinName /\ list[j].chainB = chainId}}

SameChain(i) == i.proteinA = i.proteinB /\ i.chainA = i.chainB

\* C7: each endpoint side of an interaction counts once in the metrics of
\* that endpoint's chain: in the intra counter when both endpoints share
\* structure and chain, else in the inter counter.
C7_EachSideCounted ==
    Done => \A m \in Range(result.chains) :
        LET sides == SidesIn(result.interactions, m.proteinName, m.chainId)
        IN  /\ m.interProteinInteractions =
                   Cardinality({s \in sides :
                                   ~SameChain(result.interactions[s[1]])})
            /\ m.intraProteinInteractions =
                   Cardinality({s \in sides :
                                   SameChain(result.interactions[s[1]])})

RECURSIVE SumOver(_, _)
SumOver(s, field) ==
    IF s = <<>> THEN 0 ELSE Head(s)[field] + SumOver(Tail(s), field)

\* The interactionDensity array of a chain key, empty if there is none.
DensityOf(r, key) ==
    IF IndexOfKey(r.interactionDensity, key) = 0 THEN <<>>
    ELSE r.interactionDensity[IndexOfKey(r.interactionDensity, key)].val

\* C8: per chain, the density entries' intraCount and interCount add up to
\* the chain's intraProteinInteractions and interProteinInteractions.
C8_DensitySumsEqualMetrics ==
    Done => \A m \in Range(result.chains) :
        LET entries == DensityOf(result, ChainKey(m.proteinName, m.chainId))
        IN  /\ SumOver(entries, "intraCount") = m.intraProteinInteractions
            /\ SumOver(entries, "interCount") = m.interProteinInteractions

\* C9: no chain has more interacting residues than residues.
C9_InteractingWithinResidueCount ==
    \A m \in Range(chainMetrics) : m.interactingResidues <= m.residueCount

\* The chain labels of the two endpoints of an Interaction record.
LabelsOf(i) == {ChainKey(i.proteinA, i.chainA), ChainKey(i.proteinB, i.chainB)}

\* C10: chainInteractionSummary has exactly one entry per unordered pair of
\* chain labels with an interaction, its labels in lexicographic order, and
\* its totalCount = intraCount + interCount is the number of Interaction
\* records with that pair of labels.
C10_SummaryIsHistogram ==
    Done =>
        LET list == result.interactions
            sum == result.chainInteractionSummary
        IN  /\ \A i \in Range(list) :
                   Cardinality({e \in 1..Len(sum) :
                       {sum[e].chainA, sum[e].chainB} = LabelsOf(i)}) = 1
            /\ \A e \in 1..Len(sum) :
                   /\ ~StrLess(sum[e].chainB, sum[e].chainA)
                   /\ sum[e].totalCount = sum[e].intraCount + sum[e].interCount
                   /\ sum[e].totalCount >= 1
                   /\ sum[e].totalCount =
                          Cardinality({k \in 1..Len(list) :
                              LabelsOf(list[k]) = {sum[e].chainA, sum[e].chainB}})

\* C15: no step of analyzeInteractions changes its argument: the labels, the
\* atoms of each label, their order and every field of every atom stay.
C15_InputUnchanged == [][atomsByProtein' = atomsByProtein]_vars

\* C15 witness: a finished run over two structures that found an
\* Interaction, the argument still holding its atoms.
C15_Witness ==
    /\ Done
    /\ Len(atomsByProtein) = 2
    /\ Len(AllAtoms(atomsByProtein)) = result.summary.totalAtoms
    /\ result.summary.totalAtoms >= 2
    /\ result.interactions # <<>>

\* An atom whose residue name and element symbol no rule knows.
FullyUnknown(a) ==
    ~isHydrophobic(a.resName) /\ ~isCharged(a.resName) /\ ~IsNO(a.element)

\* C16: on implausible input (coinciding atoms, occupancy 0, unknown residue
\* names and element symbols, blank chain identifiers, no atoms) the
\* analysis never stops before its return, coinciding atoms give an
\* Interaction of distance 0, every category is one of the four that the
\* rules assign, a pair with an atom of unknown residue and element is
\* Van der Waals, and the returned result holds the list and the counts.
C16_TotalOnImplausibleInput ==
    /\ pc \in {"metrics", "grid", "scan", "views", "summary", "return", "done"}
    /\ idx <= Len(AllAtoms(atomsByProtein)) + 1
    /\ \A i \in Range(interactions) :
           /\ i.type \in {"Hydrogen Bond", "Salt Bridge", "Hydrophobic",
                          "Van der Waals"}
           /\ (FullyUnknown(AtomAt(EndA(i))) \/ FullyUnknown(AtomAt(EndB(i))))
                  => i.type = "Van der Waals"
    /\ Done =>
           /\ result.interactions = interactions
           /\ result.summary.totalAtoms = Len(AllAtoms(atomsByProtein))
           /\ result.summary.totalInteractions = Len(interactions)
           /\ \A p, q \in 1..Len(AllAtoms(atomsByProtein)) :
                  LET a == AllAtoms(atomsByProtein)[p]
                      b == AllAtoms(atomsByProtein)[q]
                  IN  (p < q /\ DistSq(a, b) = 0) =>
                          \E i \in Range(interactions) :
                              /\ PairOf(i) = {<<a.proteinName, a.serial>>,
                                              <<b.proteinName, b.serial>>}
                              /\ i.distance = 0

\* C16 witness: a finished run with an Interaction of distance 0 between
\* two atoms of unknown residue and element on the blank chain.
C16_Witness ==
    /\ Done
    /\ \E i \in Range(result.interactions) :
           /\ i.distance = 0
           /\ i.chainA = <<>> /\ i.chainB = <<>>
           /\ FullyUnknown(AtomAt(EndA(i))) /\ FullyUnknown(AtomAt(EndB(i)))
           /\ AtomAt(EndA(i)).occupancy = 0
           /\ i.type = "Van der Waals"

HasSpace(s) == \E k \in 1..Len(s) : s[k] = " "

NonEmptyLine(s) == s # <<>>

\* The string fields of a record in the column order of the combined and
\* the inter-protein report, and of the intra-protein report.
PairColumns(i) ==
    <<i.proteinA, i.chainA, i.residueA, i.atomA,
      i.proteinB, i.chainB, i.residueB, i.atomB, TypeText(i.type)>>

IntraColumns(i) ==
    <<i.proteinA, i.chainA, i.chainB, i.residueA, i.atomA,
      i.residueB, i.atomB, TypeText(i.type)>>

\* The header is the first line, there is one data line per record, and in
\* each data line every string field holding a space stands in double
\* quotes in its column.
WellFormedCSV(csv, header, records, Columns(_)) ==
    LET lines == Pieces(csv, "\n")
        data == SelectSeq(Tail(lines), NonEmptyLine)
    IN  /\ lines[1] \o <<"\n">> = header
        /\ Len(data) = Len(records)
        /\ \A k \in 1..Len(records) :
               LET cells == Pieces(data[k], ",")
                   fields == Columns(records[k])
               IN  \A c \in 1..Len(fields) :
                       HasSpace(fields[c]) =>
                           /\ Len(cells) >= c
                           /\ cells[c] = InQuotes(fields[c])

\* C17: in every row of the three interaction reports each string field
\* whose value holds a space (the interaction type included) is enclosed in
\* double quotes, the header row comes first, and there is exactly one line
\* per interaction record.
C17_SpaceFieldsQuoted ==
    Done =>
        /\ WellFormedCSV(generateInteractionCSV(result.interactions),
                         InteractionHeader, result.interactions, PairColumns)
        /\ WellFormedCSV(generateInterProteinCSV(result.interactions),
                         InterProteinHeader,
                         SelectSeq(result.interactions, IsInterRecord),
                         PairColumns)
        /\ WellFormedCSV(generateIntraProteinCSV(result.interactions),
                         IntraProteinHeader,
                         SelectSeq(result.interactions, IsIntraRecord),
                         IntraColumns)

\* The structure-qualified identifier of an atom.
QualifiedId(a) == <<a.proteinName, a.serial>>

\* The scan compares atom_a with atom_b (atom_b = atom_a included).
Met(atom_a, atom_b) == atom_b \in Range(Neighbors(grid, atom_a))

\* C19: the pair-deduplication key is structure-qualified: a key marked as
\* processed belongs to one unordered pair of atoms only (an atom's
\* comparison with itself included), also when atoms of different structures
\* carry the same serial, so that marking it makes the scan skip no other
\* pair.
C19_KeyIdentifiesOnePair ==
    \A a, b, c, d \in Range(AllAtoms(atomsByProtein)) :
        ( /\ PairKey(a, b) \in checked
          /\ PairKey(c, d) = PairKey(a, b)
          /\ Met(a, b) /\ Met(c, d) )
            => {QualifiedId(a), QualifiedId(b)} = {QualifiedId(c), QualifiedId(d)}

\* The cell coordinates of an atom on the three axes.
CellOf(a) ==
    <<FloorDiv(a.x, GRID_SIZE), FloorDiv(a.y, GRID_SIZE),
      FloorDiv(a.z, GRID_SIZE)>>

AbsDiff(m, n) == Max(m - n, n - m)

CutoffSq == GRID_SIZE * GRID_SIZE * Resolution * Resolution

\* C20: two atoms at most 5.0 Angstrom apart lie in cells whose indices
\* differ by at most 1 on every axis, negative coordinates included, and
\* once the grid is filled the 27 cells around an atom's cell hold every
\* atom within the cutoff of it.
C20_GridComplete ==
    \A a, b \in Range(AllAtoms(atomsByProtein)) :
        DistSq(a, b) <= CutoffSq =>
            /\ \A axis \in 1..3 : AbsDiff(CellOf(a)[axis], CellOf(b)[axis]) <= 1
            /\ pc \notin {"metrics", "grid"} => b \in Range(Neighbors(grid, a))

\* C20 witness: a finished run over two atoms on either side of zero, in
\* different cells on each of the three axes, whose pair has been found.
C20_Witness ==
    /\ Done
    /\ \E a, b \in Range(AllAtoms(atomsByProtein)) :
           /\ a.x < 0 /\ b.x >= 0 /\ b.y < 0
           /\ CellOf(a)[1] = 0 - 1 /\ CellOf(b)[1] = 0
           /\ CellOf(a)[2] = 0 /\ CellOf(b)[2] = 0 - 1
           /\ CellOf(a)[3] # CellOf(b)[3]
           /\ a.serial # b.serial
           /\ \E i \in Range(result.interactions) :
                  PairOf(i) = {QualifiedId(a), QualifiedId(b)}

\* C11: a line with the ATOM or HETATM marker whose serial, residue number
\* or a coordinate is not a number contributes no atom, so every atom handed
\* on by the parser has numbers in these fields; an occupancy or temperature
\* factor that is not a number is 0.
C11_UnparseableLineExcluded ==
    \A a \in Range(AllAtoms(atomsByProtein)) :
        /\ a.serial # NaN /\ a.resSeq # NaN
        /\ a.x # NaN /\ a.y # NaN /\ a.z # NaN
        /\ a.occupancy # NaN /\ a.tempFactor # NaN

\* C18: the text of generateStructureCSV, read by parsePDB, gives the atoms
\* back: as many, in the same order, with the same coordinates.
C18_StructureRoundTrip ==
    LET atoms == AllAtoms(atomsByProtein)
        back == parsePDB(generateStructureCSV(atoms), LabelX)
    IN  /\ Len(back) = Len(atoms)
        /\ \A k \in 1..Len(atoms) :
               /\ back[k].x = atoms[k].x
               /\ back[k].y = atoms[k].y
               /\ back[k].z = atoms[k].z

\* C21: the returned interaction list is in a canonical order: runs on the
\* same atoms given in different input orders return the same sequence of
\* Interaction records.
C21_SameSequenceInAnyOrder ==
    Done => \A other \in InputOrders(atomsByProtein) :
                Analyze(other).interactions = result.interactions

\* The detection pass has not been finalized yet.
Accumulating == pc \in {"metrics", "grid", "scan"}

\* Every ChainMetrics entry holds the cardinality of its chain's residue set.
CountsWritten ==
    \A m \in 1..Len(chainMetrics) :
        LET key == ChainKey(chainMetrics[m].proteinName, chainMetrics[m].chainId)
        IN  /\ key \in DOMAIN interactingResiduesByChain
            /\ chainMetrics[m].interactingResidues =
                   Cardinality(interactingResiduesByChain[key])

\* One step of the two-phase protocol: the residue sets only grow; the
\* counts are written in the one step that ends the accumulation, when every
\* atom has been scanned; afterwards the interactions, the sets and the
\* metrics stay as they are.
TwoPhaseStep ==
    /\ \A key \in DOMAIN interactingResiduesByChain :
           /\ key \in DOMAIN interactingResiduesByChain'
           /\ interactingResiduesByChain[key]
                  \subseteq interactingResiduesByChain'[key]
    /\ (Accumulating /\ ~Accumulating') =>
           /\ idx > Len(AllAtoms(atomsByProtein))
           /\ interactions' = interactions
           /\ interactingResiduesByChain' = interactingResiduesByChain
    /\ ~Accumulating =>
           /\ ~Accumulating'
           /\ interactions' = interactions
           /\ interactingResiduesByChain' = interactingResiduesByChain
           /\ chainMetrics' = chainMetrics

\* C22: accumulate-then-finalize.  During the detection pass every
\* interactingResidues field is 0 and only the residue sets grow; the field
\* is written once per chain, after the last interaction has been processed,
\* with the final cardinality of the chain's set.
C22_AccumulateThenFinalize ==
    /\ [](Accumulating =>
             \A m \in Range(chainMetrics) : m.interactingResidues = 0)
    /\ [](~Accumulating => CountsWritten)
    /\ [][TwoPhaseStep]_vars

\* C22 witness: a finished run with two interactions or more in which one
\* chain's count was written as 2 and another chain's as 1.
C22_Witness ==
    /\ Done
    /\ \E m \in Range(result.chains) : m.interactingResidues = 2
    /\ \E m \in Range(result.chains) : m.interactingResidues = 1
    /\ Len(interactions) >= 2

\* The list is in descending order of totalCount, and of two neighbours
\* with the same totalCount the first is the one KeyBefore puts first.
SortedWithTieBreak(list, KeyBefore(_, _)) ==
    \A k \in 1..(Len(list) - 1) :
        \/ list[k].totalCount > list[k + 1].totalCount
        \/ /\ list[k].totalCount = list[k + 1].totalCount
           /\ KeyBefore(list[k], list[k + 1])

ResidueBefore(d, e) == d.residueSeq < e.residueSeq

PairKeyOf(c) == c.chainA \o PairSeparator \o c.chainB

ChainPairBefore(c, d) == StrLess(PairKeyOf(c), PairKeyOf(d))

\* C24: each per-chain interactionDensity list and the chainInteractionSummary
\* are sorted by descending totalCount, and entries with the same totalCount
\* are in the order of their key: residue number for the density, chain-pair
\* key for the summary.
C24_TiesOrderedByKey ==
    Done =>
        /\ \A c \in 1..Len(result.interactionDensity) :
               SortedWithTieBreak(result.interactionDensity[c].val,
                                  ResidueBefore)
        /\ SortedWithTieBreak(result.chainInteractionSummary, ChainPairBefore)

\* The values of InteractionTypeSchema.
InteractionTypes ==
    {"Hydrogen Bond", "Salt Bridge", "Hydrophobic", "Van der Waals",
     "Pi-Stacking", "Other"}

\* C26: the emitted categories are Hydrogen Bond, Salt Bridge, Hydrophobic
\* and Van der Waals only: no Interaction has the reserved type Pi-Stacking
\* and none keeps the placeholder Other, in the list being built and in the
\* returned one.
C26_OnlyFourCategories ==
    \A i \in Range(interactions) \cup Range(result.interactions) :
        /\ i.type \in InteractionTypes \ {"Pi-Stacking", "Other"}
        /\ i.type # "Pi-Stacking"
        /\ i.type # "Other"

\* C26 witness: a returned Interaction of two aromatic residues, TRP and
\* HIS, 4.5 Angstrom apart, neither pair of N/O atoms nor both hydrophobic,
\* which has taken the final default branch: Van der Waals.
C26_Witness ==
    /\ Done
    /\ \E i \in Range(result.interactions) :
           /\ i.distance = 4500
           /\ {AtomAt(EndA(i)).resName, AtomAt(EndB(i)).resName}
                  = {<<"T", "R", "P">>, <<"H", "I", "S">>}
           /\ i.type = "Van der Waals"

\* The interfaceResidues array of a chain key, empty if there is none.
InterfaceOf(r, key) ==
    IF IndexOfKey(r.interfaceResidues, key) = 0 THEN <<>>
    ELSE r.interfaceResidues[IndexOfKey(r.interfaceResidues, key)].val

ResidueNumbers(entries) == {e.residueSeq : e \in Range(entries)}

\* C27: the three per-residue views agree.  For each structure and chain the
\* residue numbers of its interfaceResidues entry are those of its
\* interactionDensity entry, as many as the chain's interactingResidues; a
\* chain with no interaction has no entry in either map and
\* interactingResidues = 0.
C27_ResidueViewsAgree ==
    Done => \A m \in Range(result.chains) :
        LET key == ChainKey(m.proteinName, m.chainId)
            iface == ResidueNumbers(InterfaceOf(result, key))
            density == ResidueNumbers(DensityOf(result, key))
        IN  /\ iface = density
            /\ Cardinality(iface) = m.interactingResidues
            /\ SidesIn(result.interactions, m.proteinName, m.chainId) = {} =>
                   /\ IndexOfKey(result.interfaceResidues, key) = 0
                   /\ IndexOfKey(result.interactionDensity, key) = 0
                   /\ m.interactingResidues = 0

\* C28: the summary counters of a result agree with its lists:
\* totalInteractions is the length of the interaction list and the sum of
\* the intra and inter counters, the intra counter is the number of records
\* with isIntraMolecular, totalChains is the number of ChainMetrics entries
\* and totalAtoms the sum of their atomCount.
C28_SummaryMatchesLists ==
    Done =>
        LET sm == result.summary
        IN  /\ sm.totalInteractions = Len(result.interactions)
            /\ sm.totalInteractions
                   = sm.intraProteinInteractions + sm.interProteinInteractions
            /\ sm.intraProteinInteractions
                   = Cardinality({k \in 1..Len(result.interactions) :
                                     result.interactions[k].isIntraMolecular})
            /\ sm.totalChains = Len(result.chains)
            /\ sm.totalAtoms = SumOver(result.chains, "atomCount")

\* C28 witness: a result over three atoms in two chains of one structure,
\* with an interaction inside a chain and one between the chains.
C28_Witness ==
    /\ Done
    /\ result.summary.totalAtoms = 3
    /\ result.summary.totalChains = 2
    /\ result.summary.totalProteins = 1
    /\ result.summary.intraProteinInteractions >= 1
    /\ result.summary.interProteinInteractions >= 1

\* The density entries of all chains of a result, in one sequence.
AllDensityEntries(r) ==
    Flatten([c \in 1..Len(r.interactionDensity) |-> r.interactionDensity[c].val])

\* C29: every interaction makes two density increments, one per endpoint:
\* over all interactionDensity entries of all chains, totalCount adds up to
\* twice totalInteractions and intraCount to twice the summary's
\* intraProteinInteractions.
C29_TwoIncrementsPerInteraction ==
    Done =>
        /\ SumOver(AllDensityEntries(result), "totalCount")
               = 2 * result.summary.totalInteractions
        /\ SumOver(AllDensityEntries(result), "intraCount")
               = 2 * result.summary.intraProteinInteractions

\* C29 witness: a result with an interaction whose two endpoints are in one
\* residue of one chain, so that both increments go to the same entry, and
\* with an interaction between two chains.
C29_Witness ==
    /\ Done
    /\ \E i \in Range(result.interactions) :
           /\ SameChain(i) /\ i.residueA = i.residueB
           /\ \E e \in Range(DensityOf(result, ChainKey(i.proteinA, i.chainA))) :
                  e.residueSeq = ResidueSeqOf(i.residueA) /\ e.intraCount >= 2
    /\ \E i \in Range(result.interactions) : ~i.isIntraMolecular

\* C30: every chainInteractionSummary entry is purely intra or purely
\* inter: with two equal chain labels it has interCount = 0 and intraCount =
\* totalCount, with two different labels intraCount = 0 and interCount =
\* totalCount.
C30_EntryPurelyIntraOrInter ==
    Done => \A e \in Range(result.chainInteractionSummary) :
        IF e.chainA = e.chainB
        THEN e.interCount = 0 /\ e.intraCount = e.totalCount
        ELSE e.intraCount = 0 /\ e.interCount = e.totalCount

\* ------------------------------------------------- the create-analysis route

\* Whether the handler can get a text for source k of the request, and the
\* text: the entry of proteinContents under the source's name, else the
\* download under its accession code.
Obtained(rq, k) ==
    LET source == rq.proteinSources[k]
    IN  \/ rq.proteinContents[source.name] # <<>>
        \/ source.pdbId # <<>> /\ rq.fetch[source.pdbId].kind = "ok"

TextOf(rq, k) ==
    LET source == rq.proteinSources[k]
        given == rq.proteinContents[source.name]
    IN  IF given # <<>> THEN given
        ELSE IF source.pdbId # <<>> THEN rq.fetch[source.pdbId].text
        ELSE <<>>

\* The texts of the requests that parsePDB gives no atom for.
AtomlessTexts ==
    {t \in {NoAtomText, OneAtomText, TwoAtomText} : parsePDB(t, LabelX) = <<>>}

HasAtomlessSource(rq) ==
    \E k \in 1..Len(rq.proteinSources) :
        Obtained(rq, k) /\ TextOf(rq, k) \in AtomlessTexts

Statuses(o) == [k \in 1..Len(o.responses) |-> o.responses[k].status]

\* C12: a create-analysis request with a source whose text parses to zero
\* atoms is answered with 400 and nothing else, analyzeInteractions is not
\* called for it and no session row is inserted; so every structure the
\* analysis of an accepted request works on has at least one atom.
C12_AtomlessSourceRejected ==
    /\ \A h \in Handled :
         (h.request.valid /\ HasAtomlessSource(h.request))
            => /\ Statuses(h.outcome) = <<400>>
               /\ h.outcome.analyzed = <<>>
               /\ h.outcome.rows = <<>>
    /\ \A k \in 1..Len(atomsByProtein) : atomsByProtein[k].atoms # <<>>

\* A request whose first source parses to atoms and whose second source is
\* a text without ATOM/HETATM line has been answered "No atoms found",
\* while the analysis of an accepted request is done.
C12_Witness ==
    /\ Done /\ atomsByProtein # <<>>
    /\ \E h \in Handled :
         /\ Len(h.request.proteinSources) = 2
         /\ TextOf(h.request, 1) = TwoAtomText
         /\ Obtained(h.request, 2) /\ TextOf(h.request, 2) = NoAtomText
         /\ h.outcome.parsed = <<LabelX, LabelXC>>
         /\ h.outcome.responses = <<[status |-> 400, message |-> NoAtomsFound]>>

\* Whether the last download the handler asked for has failed: the handler
\* asks for the downloads one at a time and goes on only after a success.
FetchFailed(h) ==
    /\ h.outcome.fetches # <<>>
    /\ h.request.fetch[h.outcome.fetches[Len(h.outcome.fetches)]].kind # "ok"

\* The sources before the one whose download failed: those the handler has
\* gone through without a response.
SourcesBeforeFailure(h) ==
    [k \in 1..Len(h.outcome.parsed) |-> h.request.proteinSources[k].name]

\* C13, as the code has it: a failed download (non-success status or
\* network error) ends the request with the single response 400 "Could not
\* fetch", which is not the "No atoms found" response; parsePDB is called
\* neither for that source nor for a later one, analyzeInteractions is not
\* called and no session row is inserted. The sources before it in the
\* request have been parsed already.
C13_FailedFetchRejected ==
    /\ CouldNotFetch # NoAtomsFound
    /\ \A h \in Handled :
         FetchFailed(h)
            => /\ h.outcome.responses
                    = <<[status |-> 400, message |-> CouldNotFetch]>>
               /\ h.outcome.parsed = SourcesBeforeFailure(h)
               /\ Len(h.outcome.parsed) < Len(h.request.proteinSources)
               /\ h.request.proteinSources[Len(h.outcome.parsed) + 1].pdbId
                    = h.outcome.fetches[Len(h.outcome.fetches)]
               /\ h.outcome.analyzed = <<>>
               /\ h.outcome.rows = <<>>
    /\ \A h \in Handled :
         h.outcome.analyzed = <<atomsByProtein>>
            => \A i \in Range(h.outcome.fetches) : h.request.fetch[i].kind = "ok"

\* C13, as stated: after a failed download parsePDB has not been called at
\* all for the request, so that the handler's atomsByProtein is still empty.
C13_NoParseAfterFailedFetch ==
    \A h \in Handled :
        (FetchFailed(h) /\ h.outcome.atomsByProtein = atomsByProtein)
            => h.outcome.parsed = <<>> /\ atomsByProtein = <<>>

\* A request whose first source was parsed and whose second source's
\* download failed with a network error has been answered, while the
\* analysis of a request whose download succeeded is done.
C13_Witness ==
    /\ Done
    /\ \E h \in Handled :
         /\ h.outcome.analyzed = <<atomsByProtein>>
         /\ h.outcome.fetches # <<>>
    /\ \E h \in Handled :
         /\ FetchFailed(h)
         /\ h.request.fetch[h.outcome.fetches[1]].kind = "network"
         /\ h.outcome.parsed = <<LabelX>>

\* Every source of the request can be obtained and parses to an atom.
AllSourcesParse(rq) ==
    \A k \in 1..Len(rq.proteinSources) :
        /\ Obtained(rq, k)
        /\ TextOf(rq, k) \notin AtomlessTexts

\* C23: every create-analysis request gets exactly one response; a session
\* row is inserted only for a valid request whose sources were all obtained
\* and parsed to at least one atom, after the one analyzeInteractions call,
\* with status "completed", and the response is then 201; any other request
\* gets a 400 or 500 response and no row. The result in the row is the
\* complete result: the one the analysis of the row's atomsByProtein has
\* produced when it is done.
C23_OnlyCompleteResultsStored ==
    \A h \in Handled :
        /\ Len(h.outcome.responses) = 1
        /\ Len(h.outcome.rows) <= 1
        /\ h.outcome.rows # <<>>
            => /\ h.request.valid /\ AllSourcesParse(h.request)
               /\ ~h.request.insertThrows
               /\ h.outcome.analyzed = <<h.outcome.atomsByProtein>>
               /\ h.outcome.rows[1].status = "completed"
               /\ h.outcome.rows[1].proteinSources = h.request.proteinSources
               /\ Statuses(h.outcome) = <<201>>
               /\ (Done /\ h.outcome.atomsByProtein = atomsByProtein)
                    => h.outcome.rows[1].result = result
        /\ h.outcome.rows = <<>> => Statuses(h.outcome)[1] \in {400, 500}
        /\ (~h.request.valid \/ ~AllSourcesParse(h.request)
                \/ h.request.insertThrows)
            => h.outcome.rows = <<>>

\* The analysis of a request with two sources is done and its result is in
\* the row the request has inserted, while the same request with a failing
\* insert has been answered with 500 and a request with a rejected second
\* source with 400.
C23_Witness ==
    /\ Done /\ Len(atomsByProtein) = 2 /\ result.interactions # <<>>
    /\ \E h \in Handled :
         /\ h.outcome.atomsByProtein = atomsByProtein
         /\ h.outcome.rows # <<>> /\ h.outcome.rows[1].result = result
    /\ \E h \in Handled :
         /\ h.outcome.atomsByProtein = atomsByProtein
         /\ h.request.insertThrows /\ Statuses(h.outcome) = <<500>>
    /\ \E h \in Handled :
         /\ Len(h.outcome.parsed) = 2 /\ Statuses(h.outcome) = <<400>>

SharesName(rq) ==
    \E j, k \in 1..Len(rq.proteinSources) :
        j # k /\ rq.proteinSources[j].name = rq.proteinSources[k].name

\* All atoms parsed from the texts of the sources of a request, source
\* after source.
ParsedAtoms(rq) ==
    Flatten([k \in 1..Len(rq.proteinSources) |->
                parsePDB(TextOf(rq, k), rq.proteinSources[k].name)])

\* C25: a create-analysis request in which two sources share a name is
\* rejected before analyzeInteractions is called, so that the atomsByProtein
\* an analysis works on holds the atoms of every source of its request.
C25_SharedNameRejected ==
    \A h \in Handled :
        /\ SharesName(h.request) => h.outcome.analyzed = <<>>
        /\ h.outcome.analyzed = <<atomsByProtein>>
            => Len(AllAtoms(atomsByProtein)) = Len(ParsedAtoms(h.request))

\* --------------------------------------------- the read and export routes

\* The interaction lists a stored session may hold when the analysis is
\* done: the list of the result, and that list repeated up to DisplayLimit
\* and to one record more.
StoredLists ==
    IF result.interactions = <<>> THEN {<<>>}
    ELSE {result.interactions, Inflate(result.interactions, DisplayLimit),
          Inflate(result.interactions, DisplayLimit + 1)}

\* What a request on the stored session 1 with the given list must be
\* answered, whatever was served before it.
ExpectedOf(req, list, response) ==
    IF req.id # 1 THEN response.status \in {400, 404}
    ELSE IF req.route = "inter"
    THEN response = [status |-> 200, body |-> generateInterProteinCSV(list)]
    ELSE IF req.route = "intra"
    THEN response = [status |-> 200, body |-> generateIntraProteinCSV(list)]
    ELSE /\ response.status = 200
         /\ Len(response.body.result.interactions) <= DisplayLimit
         /\ response.body.result.interactions
                = SubSeq(list, 1, Min(Len(list), DisplayLimit))
         /\ IF Len(list) > DisplayLimit
            THEN response.body.result.fullInteractionsCount = Len(list)
            ELSE response.body.result = [result EXCEPT !.interactions = list]

====
